---- MODULE Spec2Model ----
(***************************************************************************)
(* Merlin: the command orchestration pipeline.                             *)
(*                                                                         *)
(*  - SessionManager (src/app/session_manager.py): the bounded             *)
(*    per-document conversation memory, an OrderedDict used as an LRU      *)
(*    cache of message lists.                                              *)
(*  - execute_with_streaming (src/app/api/websocket.py): one run of the    *)
(*    streaming orchestrator, with the translator and the tabular engine   *)
(*    as its environment.                                                  *)
(*  - AITranslator.translate (src/app/core/ai_translator.py): one call of  *)
(*    the translator, with the structured-call capability as its           *)
(*    environment.                                                         *)
(*  - the same run with a second run of the client beside it, and with     *)
(*    the disconnect of the client.                                        *)
(*  - _is_complex_command and _is_contextual_command                       *)
(*    (src/app/core/ai_translator.py) on the characters of a command.      *)
(***************************************************************************)
EXTENDS Integers, Sequences, FiniteSets, TLC

(***************************************************************************)
(* Bounds of the model.                                                    *)
(***************************************************************************)
NumDocs == 3        \* documents 1..NumDocs
MaxSessions == 2    \* max_concurrent_sessions ranges over 1..MaxSessions
MaxRounds == 2      \* max_history_rounds ranges over 0..MaxRounds
MaxClock == 4       \* SessionManager operations per behaviour
MaxTasks == 2       \* a task list holds 2..MaxTasks subtasks
MaxCalls == 2       \* a ToolCalls response holds 1..MaxCalls tool calls
MaxCore == 3        \* characters of a command text before its padding

\* SessionManager() as the application constructs it
DefaultMaxSessions == 200
DefaultMaxRounds == 3

Docs == 1..NumDocs
UserTexts == {"u1", "u2"}
AssistantTexts == {"a1"}

VARIABLES
    cache,                      \* self.cache: the OrderedDict, oldest first
    MAX_CONCURRENT_SESSIONS,    \* self.MAX_CONCURRENT_SESSIONS
    MAX_HISTORY_ROUNDS,         \* self.MAX_HISTORY_ROUNDS
    lastOp,                     \* the SessionManager call that just completed
    prevOp,                     \* the call completed before lastOp
    accessTime,                 \* per document, the time of its last access
    clock,                      \* number of SessionManager calls so far
    \* one run of execute_with_streaming(sid, file_id, command)
    engines,                    \* the document registry (ids with an engine)
    pc,                         \* position of the run in the function
    task_list,                  \* number of subtasks of the task list (0: none)
    current_history,            \* history read for the next translation
    initial_history,            \* history read when the task list arrived
    translation_results,        \* the responses of the single-command loop
    translation_result,         \* the response being executed
    i,                          \* index of the decomposed loop
    task_idx,                   \* index of the single-command loop
    call,                       \* index of the next tool call of the response
    execution_log,
    last_successful_task_idx,
    all_success,
    events,                     \* the progress events emitted, in order
    df,                         \* engine.df: the operations applied to it
    tempFiles,                  \* {file_id}_temp_{n}.xlsx written by the run
    finalFile,                  \* {file_id}_result.xlsx written by the run
    toolLog,                    \* the engine.execute_tool calls, in order
    translateLog,               \* the translator.translate calls, in order
    \* one call of AITranslator.translate(user_command, headers, history)
    user_command,               \* the command, as what the code reads of it
    translate_history,          \* the history argument
    tool_groups,                \* the tool group configuration
    trpc,                       \* position of the call
    singleTaskCalls,            \* the _translate_single_task calls, in order
    tools,                      \* tools of _translate_single_task
    capLog,                     \* the capability calls, in order
    result,                     \* what translate returns
    \* the surroundings of a run
    active_sessions,            \* active_sessions: sid -> file_id
    otherpc,                    \* position of a second run of the client
    start_history,              \* the history stored when the run was started
    \* one classification of a command text
    routing_config,             \* get_routing_config(): the marker lists
    classified,                 \* what the two classifiers returned
    \* one interpretation of a capability message
    openai_message              \* message.tool_calls of the message

smVars == <<cache, MAX_CONCURRENT_SESSIONS, MAX_HISTORY_ROUNDS,
            lastOp, prevOp, accessTime, clock>>

smGhost == <<lastOp, prevOp, accessTime, clock>>

smConfig == <<MAX_CONCURRENT_SESSIONS, MAX_HISTORY_ROUNDS>>

runVars == <<engines, pc, task_list, current_history, initial_history,
             translation_results,
             translation_result, i, task_idx, call, execution_log,
             last_successful_task_idx, all_success, events, df, tempFiles,
             finalFile, toolLog, translateLog>>

trVars == <<user_command, translate_history, tool_groups, trpc,
            singleTaskCalls, tools, capLog, result>>

envVars == <<active_sessions, otherpc, start_history, routing_config,
             classified,
             openai_message>>

vars == <<cache, MAX_CONCURRENT_SESSIONS, MAX_HISTORY_ROUNDS,
          lastOp, prevOp, accessTime, clock,
          engines, pc, task_list, current_history, initial_history,
          translation_results, translation_result, i, task_idx, call,
          execution_log,
          last_successful_task_idx, all_success, events, df, tempFiles,
          finalFile, toolLog, translateLog,
          user_command, translate_history, tool_groups, trpc,
          singleTaskCalls, tools, capLog, result,
          active_sessions, otherpc, start_history, routing_config,
          classified,
          openai_message>>

(***************************************************************************)
(* Python helpers.                                                         *)
(***************************************************************************)

\* {"role": role, "content": content}
Msg(role, content) == [role |-> role, content |-> content]

\* the round appended by update_history
Round(u, a) == <<Msg("user", u), Msg("assistant", a)>>

\* lst[:n] in place of lst[-n:]: keeps the oldest messages
PySliceFirst(lst, n) ==
    IF n = 0 \/ n >= Len(lst) THEN lst
    ELSE SubSeq(lst, 1, n)

\* Python's lst[-n:] for n >= 0: -0 is 0, so lst[-0:] is the whole list
PySliceLast(lst, n) ==
    IF n = 0 \/ n >= Len(lst) THEN lst
    ELSE SubSeq(lst, Len(lst) - n + 1, Len(lst))

\* file_id in self.cache
HasKey(c, d) == \E x \in 1..Len(c) : c[x].id = d

Keys(c) == {c[x].id : x \in 1..Len(c)}

IndexOf(c, d) == CHOOSE x \in 1..Len(c) : c[x].id = d

\* self.cache[file_id]
GetItem(c, d) == c[IndexOf(c, d)].history

RemoveAt(c, x) == SubSeq(c, 1, x - 1) \o SubSeq(c, x + 1, Len(c))

\* self.cache.move_to_end(file_id)
MoveToEnd(c, d) == Append(RemoveAt(c, IndexOf(c, d)), c[IndexOf(c, d)])

\* self.cache[file_id] = history: an existing key keeps its position,
\* a new key is added at the end
SetItem(c, d, h) ==
    IF HasKey(c, d) THEN [c EXCEPT ![IndexOf(c, d)].history = h]
    ELSE Append(c, [id |-> d, history |-> h])

\* del self.cache[file_id]
DelItem(c, d) == RemoveAt(c, IndexOf(c, d))

(***************************************************************************)
(* SessionManager.                                                         *)
(***************************************************************************)

\* get_history without the move_to_end
get_history_cache_nomove(c, d) == c

\* get_history: the cache it leaves
get_history_cache(c, d) == IF HasKey(c, d) THEN MoveToEnd(c, d) ELSE c

\* get_history: the list it returns (a copy)
get_history_result(c, d) == IF HasKey(c, d) THEN GetItem(c, d) ELSE <<>>

\* _enforce_cache_limit with the limit off by one
RECURSIVE enforce_cache_limit_offbyone(_, _)
enforce_cache_limit_offbyone(c, maxSessions) ==
    IF Len(c) > maxSessions + 1
    THEN enforce_cache_limit_offbyone(Tail(c), maxSessions)
    ELSE c

\* _enforce_cache_limit: popitem(last=False) while over the limit
RECURSIVE enforce_cache_limit(_, _)
enforce_cache_limit(c, maxSessions) ==
    IF Len(c) > maxSessions THEN enforce_cache_limit(Tail(c), maxSessions)
    ELSE c

\* the ids _enforce_cache_limit removes, in removal order
RECURSIVE Evicted(_, _)
Evicted(c, maxSessions) ==
    IF Len(c) > maxSessions
    THEN <<c[1].id>> \o Evicted(Tail(c), maxSessions)
    ELSE <<>>

\* the truncation step of update_history
Truncate(history, maxRounds) ==
    IF Len(history) > maxRounds * 2
    THEN PySliceLast(history, maxRounds * 2)
    ELSE history

\* removed_count of update_history: the messages the truncation drops
RemovedCount(c, d, u, a, maxRounds) ==
    Len(get_history_result(c, d) \o Round(u, a))
        - Len(Truncate(get_history_result(c, d) \o Round(u, a), maxRounds))

\* update_history up to the write-back (before _enforce_cache_limit)
update_history_written(c, d, u, a, maxRounds) ==
    SetItem(get_history_cache(c, d), d,
            Truncate(get_history_result(c, d) \o Round(u, a), maxRounds))

\* update_history: the cache it leaves
update_history(c, d, u, a, maxRounds, maxSessions) ==
    enforce_cache_limit(update_history_written(c, d, u, a, maxRounds),
                        maxSessions)

\* clear_history that empties the whole cache
clear_history_all(c, d) == IF HasKey(c, d) THEN <<>> ELSE c

\* clear_history: the cache it leaves
clear_history(c, d) == IF HasKey(c, d) THEN DelItem(c, d) ELSE c

\* no run of execute_with_streaming has been started
NoRun ==
    /\ engines = {}
    /\ pc = "idle"
    /\ task_list = 0
    /\ current_history = <<>>
    /\ initial_history = <<>>
    /\ translation_results = <<>>
    /\ translation_result = [type |-> "none", success |-> TRUE, n |-> 0]
    /\ i = 0
    /\ task_idx = 0
    /\ call = 0
    /\ execution_log = <<>>
    /\ last_successful_task_idx = 0
    /\ all_success = TRUE
    /\ events = <<>>
    /\ df = <<>>
    /\ tempFiles = <<>>
    /\ finalFile = [exists |-> FALSE, data |-> <<>>]
    /\ toolLog = <<>>
    /\ translateLog = <<>>

\* no call of translate has been made
NoTranslate ==
    /\ user_command = <<>>
    /\ translate_history = <<>>
    /\ tool_groups = <<>>
    /\ trpc = "idle"
    /\ singleTaskCalls = <<>>
    /\ tools = {}
    /\ capLog = <<>>
    /\ result = <<>>

\* no client, no second run, no classification
NoEnv ==
    /\ active_sessions = <<>>
    /\ otherpc = "none"
    /\ start_history = <<>>
    /\ routing_config = <<>>
    /\ classified = <<>>
    /\ openai_message = <<>>

NoOp == [op |-> "none", doc |-> 0, user |-> "", assistant |-> "",
         result |-> <<>>, evicted |-> <<>>, dropped |-> 0, at |-> 0]

\* SessionManager.__init__ with its two parameters
InitSM ==
    /\ cache = <<>>
    /\ MAX_CONCURRENT_SESSIONS \in 1..MaxSessions
    /\ MAX_HISTORY_ROUNDS \in 0..MaxRounds
    /\ lastOp = NoOp
    /\ prevOp = NoOp
    /\ accessTime = [d \in Docs |-> 0]
    /\ clock = 0
    /\ NoRun
    /\ NoTranslate
    /\ NoEnv

GetHistory(d) ==
    /\ clock < MaxClock
    /\ cache' = get_history_cache(cache, d)
    /\ lastOp' = [NoOp EXCEPT !.op = "get", !.doc = d,
                              !.result = get_history_result(cache, d),
                              !.at = clock + 1]
    /\ prevOp' = lastOp
    /\ accessTime' = IF HasKey(cache, d)
                     THEN [accessTime EXCEPT ![d] = clock + 1]
                     ELSE accessTime
    /\ clock' = clock + 1
    /\ UNCHANGED <<MAX_CONCURRENT_SESSIONS, MAX_HISTORY_ROUNDS>>
    /\ UNCHANGED <<runVars, trVars, envVars>>

UpdateHistory(d, u, a) ==
    /\ clock < MaxClock
    /\ cache' = update_history(cache, d, u, a, MAX_HISTORY_ROUNDS,
                               MAX_CONCURRENT_SESSIONS)
    /\ lastOp' = [NoOp EXCEPT !.op = "update", !.doc = d,
                              !.user = u, !.assistant = a,
                              !.evicted = Evicted(
                                  update_history_written(cache, d, u, a,
                                                         MAX_HISTORY_ROUNDS),
                                  MAX_CONCURRENT_SESSIONS),
                              !.dropped = RemovedCount(cache, d, u, a,
                                                       MAX_HISTORY_ROUNDS),
                              !.at = clock + 1]
    /\ prevOp' = lastOp
    /\ accessTime' = [accessTime EXCEPT ![d] = clock + 1]
    /\ clock' = clock + 1
    /\ UNCHANGED <<MAX_CONCURRENT_SESSIONS, MAX_HISTORY_ROUNDS>>
    /\ UNCHANGED <<runVars, trVars, envVars>>

ClearHistory(d) ==
    /\ clock < MaxClock
    /\ cache' = clear_history(cache, d)
    /\ lastOp' = [NoOp EXCEPT !.op = "clear", !.doc = d, !.at = clock + 1]
    /\ prevOp' = lastOp
    /\ clock' = clock + 1
    /\ UNCHANGED <<MAX_CONCURRENT_SESSIONS, MAX_HISTORY_ROUNDS, accessTime>>
    /\ UNCHANGED <<runVars, trVars, envVars>>

NextSM ==
    \/ \E d \in Docs : GetHistory(d)
    \/ \E d \in Docs, u \in UserTexts, a \in AssistantTexts :
           UpdateHistory(d, u, a)
    \/ \E d \in Docs : ClearHistory(d)

SpecSM == InitSM /\ [][NextSM]_vars

(***************************************************************************)
(* execute_with_streaming: one run on document FileId.                     *)
(*                                                                         *)
(* The translator and the engine are the environment: each translate call  *)
(* returns one AIResponse of any variant or raises, each execute_tool call *)
(* succeeds, reports an analysis, is rejected or raises.  engine.save is   *)
(* taken to return.  A rejected or raising operation leaves engine.df as   *)
(* it was, and so does an analysis.                                        *)
(***************************************************************************)

FileId == 1

\* the texts of a run: the command, subtask a, the result message of tool
\* call b of task a, the consolidated summary, a message of an earlier run
Text(kind, a, b) == [kind |-> kind, a |-> a, b |-> b]

Command == Text("command", 0, 0)

\* task_list[i - 1]
Subtask(a) == Text("subtask", a, 0)

\* result["message"] of tool call b of task a
ResultMessage(a, b) == Text("message", a, b)

\* assistant_summary of the finalisation: the joined success logs
Summary == Text("summary", 0, 0)

\* the history k earlier rounds leave
RECURSIVE PriorHistory(_)
PriorHistory(k) ==
    IF k = 0 THEN <<>>
    ELSE PriorHistory(k - 1)
             \o Round(Text("prior", k, 0), Text("prior", k, 1))

\* an AIResponse: its variant, its success flag and the length of its
\* tool_calls or task_list
Response(type, n) == [type |-> type, success |-> type # "error", n |-> n]

\* what translate returns: a list of one AIResponse; a TaskList holds at
\* least two subtasks, a ToolCalls response at least one call
Responses ==
    {Response(t, 0) : t \in {"clarification", "help", "friendly_message",
                             "error"}}
        \cup {Response("tool_calls", n) : n \in 1..MaxCalls}
        \cup {Response("task_list", n) : n \in 2..MaxTasks}

\* the outcomes of engine.execute_tool
ToolOutcomes == {"success", "analysis", "failure", "raise"}

is_tool_calls_response(r) == r.type = "tool_calls"

is_clarification_response(r) == r.type = "clarification"

is_task_list_response(r) == r.type = "task_list"

\* a progress event
Event(type, task) ==
    [type |-> type, task |-> task, n |-> 0, success |-> FALSE,
     download_url |-> FALSE, partial_success |-> "absent"]

\* the done event of the decomposed path with 'success': True
DoneDecomposedSuccess(allSuccess, last) ==
    [Event("done", 0) EXCEPT !.success = TRUE,
                             !.download_url = (last > 0)]

\* the done event of the decomposed path (no partial_success key)
DoneDecomposed(allSuccess, last) ==
    [Event("done", 0) EXCEPT !.success = allSuccess,
                             !.download_url = (last > 0)]

\* the done event of the single-command path with a download_url in
\* every case
DoneSingleUrl(allSuccess, last) ==
    [Event("done", 0) EXCEPT !.success = allSuccess,
                             !.download_url = TRUE,
                             !.partial_success =
                                 IF last > 0 /\ ~allSuccess THEN "true"
                                 ELSE "false"]

\* the done event of the single-command path
DoneSingle(allSuccess, last) ==
    [Event("done", 0) EXCEPT !.success = allSuccess,
                             !.download_url = (last > 0),
                             !.partial_success =
                                 IF last > 0 /\ ~allSuccess THEN "true"
                                 ELSE "false"]

\* the done event that ends a run at an analysis result
DoneAnalysis == [Event("done", 0) EXCEPT !.success = TRUE]

\* the hint event and log line, present when a task succeeded before
Hint(last) ==
    IF last > 0 THEN <<[Event("hint", 0) EXCEPT !.n = last]>> ELSE <<>>

HintLog(last) ==
    IF last > 0 THEN <<[kind |-> "hint", task |-> last]>> ELSE <<>>

LogLine(kind, task) == [kind |-> kind, task |-> task]

\* result.get("success") read as the truth of the result dictionary
result_get_success_any(outcome) == TRUE

\* result.get("success") of a result execute_tool returned: an analysis
\* result carries success True as well
result_get_success(outcome) == outcome \in {"success", "analysis"}

\* engine.df after execute_tool: a successful operation is applied
Apply(d, task, c, outcome) ==
    IF outcome = "success" THEN Append(d, <<task, c>>) ELSE d

ToolCallRecord(task, c, outcome) ==
    [task |-> task, call |-> c, outcome |-> outcome]

\* a translate call: its arguments and what it returned
TranslateRecord(text, history, r) ==
    [command |-> text, history |-> history, response |-> r]

\* translate raised instead of returning
Raised == [type |-> "raise", success |-> FALSE, n |-> 0]

\* the application's SessionManager() and one uploaded (or missing)
\* document whose history holds 0..DefaultMaxRounds earlier rounds
InitRun ==
    /\ MAX_CONCURRENT_SESSIONS = DefaultMaxSessions
    /\ MAX_HISTORY_ROUNDS = DefaultMaxRounds
    /\ \E k \in 0..DefaultMaxRounds :
           cache = IF k = 0 THEN <<>>
                   ELSE <<[id |-> FileId, history |-> PriorHistory(k)]>>
    /\ lastOp = NoOp
    /\ prevOp = NoOp
    /\ accessTime = [d \in Docs |-> 0]
    /\ clock = 0
    /\ engines \in {{}, {FileId}}
    /\ pc = "idle"
    /\ task_list = 0
    /\ current_history = <<>>
    /\ initial_history = <<>>
    /\ translation_results = <<>>
    /\ translation_result = Response("none", 0)
    /\ i = 0
    /\ task_idx = 0
    /\ call = 0
    /\ execution_log = <<>>
    /\ last_successful_task_idx = 0
    /\ all_success = TRUE
    /\ events = <<>>
    /\ df = <<>>
    /\ tempFiles = <<>>
    /\ finalFile = [exists |-> FALSE, data |-> <<>>]
    /\ toolLog = <<>>
    /\ translateLog = <<>>
    /\ NoTranslate
    /\ active_sessions = <<>>
    /\ otherpc = "none"
    /\ start_history = <<>>
    /\ routing_config = <<>>
    /\ classified = <<>>
    /\ openai_message = <<>>

\* the one client of the run
Sid == "sid"

\* start_execution, and execute_with_streaming up to its first sleep
StartExecution ==
    /\ pc = "idle"
    /\ active_sessions' = [s \in DOMAIN active_sessions \cup {Sid} |-> FileId]
    /\ start_history' = get_history_result(cache, FileId)
    /\ events' = Append(events, Event("start", 0))
    /\ pc' = "started"
    /\ UNCHANGED <<trVars, otherpc, routing_config, classified,
                   openai_message,
                   current_history>>
    /\ UNCHANGED <<smVars, engines, task_list, initial_history,
                   translation_results, translation_result, i, task_idx,
                   call, execution_log, last_successful_task_idx,
                   all_success, df, tempFiles, finalFile, toolLog,
                   translateLog>>

\* the file check that returns without an error event
GetContextSilent ==
    /\ pc = "started"
    /\ UNCHANGED <<trVars, envVars>>
    /\ IF FileId \notin engines
       THEN /\ pc' = "ended"
            /\ UNCHANGED <<cache, current_history, events>>
       ELSE /\ current_history' = get_history_result(cache, FileId)
            /\ cache' = get_history_cache(cache, FileId)
            /\ events' = Append(events, Event("translating", 0))
            /\ pc' = "translate"
    /\ UNCHANGED <<smConfig, smGhost, engines, task_list, initial_history,
                   translation_results, translation_result, i, task_idx,
                   call, execution_log, last_successful_task_idx,
                   all_success, df, tempFiles, finalFile, toolLog,
                   translateLog>>

\* after the sleep: the file check and the history of the document
GetContext ==
    /\ pc = "started"
    /\ UNCHANGED <<trVars, envVars>>
    /\ IF FileId \notin engines
       THEN /\ events' = Append(events, Event("error", 0))
            /\ pc' = "ended"
            /\ UNCHANGED <<cache, current_history>>
       ELSE /\ current_history' = get_history_result(cache, FileId)
            /\ cache' = get_history_cache(cache, FileId)
            /\ events' = Append(events, Event("translating", 0))
            /\ pc' = "translate"
    /\ UNCHANGED <<smConfig, smGhost, engines, task_list, initial_history,
                   translation_results, translation_result, i, task_idx,
                   call, execution_log, last_successful_task_idx,
                   all_success, df, tempFiles, finalFile, toolLog,
                   translateLog>>

\* translator.translate(command) raises
TranslateCommandRaises ==
    /\ pc = "translate"
    /\ UNCHANGED <<trVars, envVars, current_history>>
    /\ translateLog' = Append(translateLog,
           TranslateRecord(Command, current_history, Raised))
    /\ events' = Append(events, Event("error", 0))
    /\ pc' = "ended"
    /\ UNCHANGED <<smVars, engines, task_list, initial_history,
                   translation_results, translation_result, i, task_idx,
                   call, execution_log, last_successful_task_idx,
                   all_success, df, tempFiles, finalFile, toolLog>>

\* translator.translate(command) returns [r]: a task list starts the
\* decomposed loop, any other response the single-command loop
TranslateCommand(r) ==
    /\ pc = "translate"
    /\ UNCHANGED <<trVars, envVars, current_history>>
    /\ translateLog' = Append(translateLog,
           TranslateRecord(Command, current_history, r))
    /\ IF is_task_list_response(r)
       THEN /\ task_list' = r.n
            /\ events' = Append(events,
                                [Event("task_split", 0) EXCEPT !.n = r.n])
            /\ initial_history' = get_history_result(cache, FileId)
            /\ cache' = get_history_cache(cache, FileId)
            /\ i' = 1
            /\ pc' = "subtask"
            /\ UNCHANGED <<translation_results, task_idx>>
       ELSE /\ translation_results' = <<r>>
            /\ task_idx' = 1
            /\ pc' = "task"
            /\ UNCHANGED <<task_list, events, initial_history, cache, i>>
    /\ UNCHANGED <<smConfig, smGhost, engines, translation_result, call,
                   execution_log, last_successful_task_idx, all_success,
                   df, tempFiles, finalFile, toolLog>>

\* the history the decomposed loop reads for the translation of subtask i
subtask_history ==
    IF i > 1 THEN get_history_result(cache, FileId) ELSE initial_history

\* the top of the decomposed loop: translator.translate(subtask) raises,
\* which the outermost handler turns into an error event
TranslateSubtaskRaises ==
    /\ pc = "subtask"
    /\ UNCHANGED <<trVars, envVars>>
    /\ current_history' = subtask_history
    /\ cache' = IF i > 1 THEN get_history_cache(cache, FileId) ELSE cache
    /\ translateLog' = Append(translateLog,
           TranslateRecord(Subtask(i), current_history', Raised))
    /\ events' = events \o <<Event("translating_subtask", i),
                             Event("error", 0)>>
    /\ pc' = "ended"
    /\ UNCHANGED <<smConfig, smGhost, engines, task_list, initial_history,
                   translation_results, translation_result, i, task_idx,
                   call, execution_log, last_successful_task_idx,
                   all_success, df, tempFiles, finalFile, toolLog>>

\* the decomposed loop left after its first pass
AfterSubtaskStop ==
    /\ pc' = "save"
    /\ UNCHANGED i

\* where the decomposed loop goes when the tool calls of subtask i are
\* over: the next subtask, or the code after the loop
AfterSubtask ==
    IF i < task_list
    THEN /\ i' = i + 1
         /\ pc' = "subtask"
    ELSE /\ pc' = "save"
         /\ UNCHANGED i

\* the top of the decomposed loop with `continue` where the code leaves the
\* loop at a failed translation
TranslateSubtaskContinue(r) ==
    /\ pc = "subtask"
    /\ UNCHANGED <<trVars, envVars>>
    /\ current_history' = subtask_history
    /\ cache' = IF i > 1 THEN get_history_cache(cache, FileId) ELSE cache
    /\ translateLog' = Append(translateLog,
                              TranslateRecord(Subtask(i), current_history', r))
    /\ translation_result' = r
    /\ IF ~r.success
       THEN \* subtask_translate_failed; continue
            /\ events' = events \o <<Event("translating_subtask", i),
                                     Event("subtask_translate_failed", i)>>
            /\ all_success' = FALSE
            /\ AfterSubtask
            /\ UNCHANGED call
       ELSE IF is_tool_calls_response(r) /\ r.n > 0
       THEN /\ events' = events \o <<Event("translating_subtask", i),
                                     Event("subtask_translated", i),
                                     Event("task_start", i)>>
            /\ call' = 1
            /\ pc' = "subtask_call"
            /\ UNCHANGED <<all_success, i>>
       ELSE \* no tool calls; break
            /\ events' = events \o <<Event("translating_subtask", i),
                                     Event("subtask_translated", i),
                                     Event("task_start", i)>>
            /\ all_success' = FALSE
            /\ pc' = "save"
            /\ UNCHANGED <<call, i>>
    /\ UNCHANGED <<smConfig, smGhost, engines, task_list, initial_history,
                   translation_results, task_idx, execution_log,
                   last_successful_task_idx, df, tempFiles, finalFile,
                   toolLog>>

\* the top of the decomposed loop, up to the first execute_tool: subtask i
\* is translated to r (translate returns a list of one response, so the
\* empty-result `continue` is never taken)
TranslateSubtask(r) ==
    /\ pc = "subtask"
    /\ UNCHANGED <<trVars, envVars>>
    /\ current_history' = subtask_history
    /\ cache' = IF i > 1 THEN get_history_cache(cache, FileId) ELSE cache
    /\ translateLog' = Append(translateLog,
                              TranslateRecord(Subtask(i), current_history', r))
    /\ translation_result' = r
    /\ IF ~r.success
       THEN \* subtask_translate_failed; break
            /\ events' = events \o <<Event("translating_subtask", i),
                                     Event("subtask_translate_failed", i)>>
            /\ all_success' = FALSE
            /\ pc' = "save"
            /\ UNCHANGED call
       ELSE IF is_tool_calls_response(r) /\ r.n > 0
       THEN /\ events' = events \o <<Event("translating_subtask", i),
                                     Event("subtask_translated", i),
                                     Event("task_start", i)>>
            /\ call' = 1
            /\ pc' = "subtask_call"
            /\ UNCHANGED all_success
       ELSE \* no tool calls; break
            /\ events' = events \o <<Event("translating_subtask", i),
                                     Event("subtask_translated", i),
                                     Event("task_start", i)>>
            /\ all_success' = FALSE
            /\ pc' = "save"
            /\ UNCHANGED call
    /\ UNCHANGED <<smConfig, smGhost, engines, task_list, initial_history,
                   translation_results, i, task_idx, execution_log,
                   last_successful_task_idx, df, tempFiles, finalFile,
                   toolLog>>

\* one pass of the inner loop of the decomposed path:
\* engine.execute_tool of tool call `call` of subtask i
ExecuteSubtaskCall(outcome) ==
    /\ pc = "subtask_call"
    /\ UNCHANGED <<trVars, envVars, current_history>>
    /\ toolLog' = Append(toolLog, ToolCallRecord(i, call, outcome))
    /\ df' = Apply(df, i, call, outcome)
    /\ IF outcome = "raise"
       THEN \* the outermost handler
            /\ events' = Append(events, Event("error", 0))
            /\ pc' = "ended"
            /\ UNCHANGED <<cache, execution_log, last_successful_task_idx,
                           all_success, i, call>>
       ELSE IF result_get_success(outcome)
       THEN \* result.get("success")
            /\ execution_log' = Append(execution_log, LogLine("message", i))
            /\ last_successful_task_idx' = i
            /\ events' = Append(events, Event("task_success", i))
            /\ cache' = update_history(cache, FileId, Subtask(i),
                                       ResultMessage(i, call),
                                       MAX_HISTORY_ROUNDS,
                                       MAX_CONCURRENT_SESSIONS)
            /\ IF call < translation_result.n
               THEN /\ call' = call + 1
                    /\ UNCHANGED <<pc, i>>
               ELSE /\ AfterSubtask
                    /\ UNCHANGED call
            /\ UNCHANGED all_success
       ELSE \* rejected: break, which leaves the inner loop
            /\ execution_log' = Append(execution_log, LogLine("error", i))
            /\ all_success' = FALSE
            /\ events' = Append(events, Event("task_error", i))
            /\ AfterSubtask
            /\ UNCHANGED <<cache, last_successful_task_idx, call>>
    /\ UNCHANGED <<smConfig, smGhost, engines, task_list, initial_history,
                   translation_results, translation_result, task_idx,
                   tempFiles, finalFile, translateLog>>

\* the decomposed path after its loop with the done event emitted before
\* the file is saved
SaveDecomposedDoneFirst ==
    /\ pc = "save"
    /\ UNCHANGED <<trVars, envVars, current_history>>
    /\ IF last_successful_task_idx > 0
       THEN /\ finalFile' = [exists |-> TRUE, data |-> df]
            /\ events' = events
                   \o <<DoneDecomposed(all_success,
                                       last_successful_task_idx),
                        Event("saving", 0)>>
       ELSE /\ events' = Append(events,
                   DoneDecomposed(all_success, last_successful_task_idx))
            /\ UNCHANGED finalFile
    /\ pc' = "ended"
    /\ UNCHANGED <<smVars, engines, task_list, initial_history,
                   translation_results, translation_result, i, task_idx,
                   call, execution_log, last_successful_task_idx,
                   all_success, df, tempFiles, toolLog, translateLog>>

\* the decomposed path after its loop: save and done
SaveDecomposed ==
    /\ pc = "save"
    /\ UNCHANGED <<trVars, envVars, current_history>>
    /\ IF last_successful_task_idx > 0
       THEN /\ finalFile' = [exists |-> TRUE, data |-> df]
            /\ events' = events
                   \o <<Event("saving", 0),
                        DoneDecomposed(all_success,
                                       last_successful_task_idx)>>
       ELSE /\ events' = Append(events,
                   DoneDecomposed(all_success, last_successful_task_idx))
            /\ UNCHANGED finalFile
    /\ pc' = "ended"
    /\ UNCHANGED <<smVars, engines, task_list, initial_history,
                   translation_results, translation_result, i, task_idx,
                   call, execution_log, last_successful_task_idx,
                   all_success, df, tempFiles, toolLog, translateLog>>

\* where the single-command loop goes when a task is over: the next
\* translation result, or the code after the loop
AfterTask ==
    IF task_idx < Len(translation_results)
    THEN /\ task_idx' = task_idx + 1
         /\ pc' = "task"
    ELSE /\ pc' = "finish"
         /\ UNCHANGED task_idx

\* the top of the single-command loop, up to the first execute_tool
StartTask ==
    /\ pc = "task"
    /\ UNCHANGED <<trVars, envVars, current_history>>
    /\ translation_result' = translation_results[task_idx]
    /\ LET r == translation_results[task_idx] IN
       IF ~r.success
       THEN \* translation failed: task_error, hint, break
            /\ execution_log' = execution_log
                   \o <<LogLine("error", task_idx)>>
                   \o HintLog(last_successful_task_idx)
            /\ events' = events
                   \o <<Event("task_start", task_idx),
                        Event("task_error", task_idx)>>
                   \o Hint(last_successful_task_idx)
            /\ all_success' = FALSE
            /\ pc' = "finish"
            /\ UNCHANGED <<task_idx, call>>
       ELSE IF r.type = "friendly_message"
       THEN /\ execution_log' = Append(execution_log,
                                       LogLine("info", task_idx))
            /\ events' = events \o <<Event("task_start", task_idx),
                                     Event("info", task_idx)>>
            /\ AfterTask
            /\ UNCHANGED <<all_success, call>>
       ELSE IF r.type = "help"
       THEN /\ execution_log' = Append(execution_log,
                                       LogLine("info", task_idx))
            /\ events' = events \o <<Event("task_start", task_idx),
                                     Event("help", task_idx)>>
            /\ AfterTask
            /\ UNCHANGED <<all_success, call>>
       ELSE IF is_clarification_response(r)
       THEN \* clarify; return
            /\ events' = events \o <<Event("task_start", task_idx),
                                     Event("clarify", 0)>>
            /\ pc' = "ended"
            /\ UNCHANGED <<execution_log, all_success, task_idx, call>>
       ELSE IF ~is_tool_calls_response(r) \/ r.n = 0
       THEN \* no tool calls; continue
            /\ events' = Append(events, Event("task_start", task_idx))
            /\ AfterTask
            /\ UNCHANGED <<execution_log, all_success, call>>
       ELSE /\ events' = Append(events, Event("task_start", task_idx))
            /\ call' = 1
            /\ pc' = "task_call"
            /\ UNCHANGED <<execution_log, all_success, task_idx>>
    /\ UNCHANGED <<smVars, engines, task_list, initial_history,
                   translation_results, i, last_successful_task_idx, df,
                   tempFiles, finalFile, toolLog, translateLog>>

\* one pass of the inner loop of the single-command path:
\* engine.execute_tool of tool call `call` of task task_idx
ExecuteTaskCall(outcome) ==
    /\ pc = "task_call"
    /\ UNCHANGED <<trVars, envVars, current_history>>
    /\ toolLog' = Append(toolLog, ToolCallRecord(task_idx, call, outcome))
    /\ df' = Apply(df, task_idx, call, outcome)
    /\ IF outcome = "raise"
       THEN \* the handler of the loop body: task_error, hint, break
            /\ all_success' = FALSE
            /\ execution_log' = execution_log
                   \o <<LogLine("error", task_idx)>>
                   \o HintLog(last_successful_task_idx)
            /\ events' = events \o <<Event("task_error", task_idx)>>
                                \o Hint(last_successful_task_idx)
            /\ pc' = "finish"
            /\ UNCHANGED <<cache, last_successful_task_idx, tempFiles,
                           task_idx, call>>
       ELSE IF outcome = "analysis"
       THEN \* result.get("is_analysis"): history, done, return
            /\ execution_log' = Append(execution_log,
                                       LogLine("message", task_idx))
            /\ last_successful_task_idx' = task_idx
            /\ cache' = update_history(cache, FileId, Command, Summary,
                                       MAX_HISTORY_ROUNDS,
                                       MAX_CONCURRENT_SESSIONS)
            /\ events' = events \o <<Event("analysis_result", 0),
                                     DoneAnalysis>>
            /\ pc' = "ended"
            /\ UNCHANGED <<all_success, tempFiles, task_idx, call>>
       ELSE IF outcome = "success"
       THEN \* result["success"]: checkpoint and intermediate file
            /\ execution_log' = Append(execution_log,
                                       LogLine("message", task_idx))
            /\ last_successful_task_idx' = task_idx
            /\ events' = Append(events, Event("task_success", task_idx))
            /\ tempFiles' = (task_idx :> df') @@ tempFiles
            /\ IF call < translation_result.n
               THEN /\ call' = call + 1
                    /\ UNCHANGED <<pc, task_idx>>
               ELSE /\ AfterTask
                    /\ UNCHANGED call
            /\ UNCHANGED <<cache, all_success>>
       ELSE \* rejected: task_error, hint, break (leaves the inner loop)
            /\ all_success' = FALSE
            /\ execution_log' = execution_log
                   \o <<LogLine("error", task_idx)>>
                   \o HintLog(last_successful_task_idx)
            /\ events' = events \o <<Event("task_error", task_idx)>>
                                \o Hint(last_successful_task_idx)
            /\ AfterTask
            /\ UNCHANGED <<cache, last_successful_task_idx, tempFiles,
                           call>>
    /\ UNCHANGED <<smConfig, smGhost, engines, task_list, initial_history,
                   translation_results, translation_result, i, finalFile,
                   translateLog>>

\* the single-command path after its loop: final file, history, done
Finish ==
    /\ pc = "finish"
    /\ UNCHANGED <<trVars, envVars, current_history>>
    /\ IF last_successful_task_idx > 0
       THEN /\ finalFile' =
                  [exists |-> TRUE,
                   data |-> IF last_successful_task_idx \in DOMAIN tempFiles
                            THEN tempFiles[last_successful_task_idx]
                            ELSE df]
            /\ cache' = update_history(cache, FileId, Command, Summary,
                                       MAX_HISTORY_ROUNDS,
                                       MAX_CONCURRENT_SESSIONS)
            /\ events' = events
                   \o <<Event("saving", 0),
                        DoneSingle(all_success, last_successful_task_idx)>>
       ELSE /\ events' = Append(events,
                   DoneSingle(all_success, last_successful_task_idx))
            /\ UNCHANGED <<finalFile, cache>>
    /\ pc' = "ended"
    /\ UNCHANGED <<smConfig, smGhost, engines, task_list, initial_history,
                   translation_results, translation_result, i, task_idx,
                   call, execution_log, last_successful_task_idx,
                   all_success, df, tempFiles, toolLog, translateLog>>

NextRun ==
    \/ StartExecution
    \/ GetContext
    \/ TranslateCommandRaises
    \/ \E r \in Responses : TranslateCommand(r)
    \/ TranslateSubtaskRaises
    \/ \E r \in Responses : TranslateSubtask(r)
    \/ \E outcome \in ToolOutcomes : ExecuteSubtaskCall(outcome)
    \/ SaveDecomposed
    \/ StartTask
    \/ \E outcome \in ToolOutcomes : ExecuteTaskCall(outcome)
    \/ Finish

SpecRun == InitRun /\ [][NextRun]_vars

\* disconnect(sid) that also cancels the run of the client
DisconnectCancels ==
    /\ Sid \in DOMAIN active_sessions
    /\ pc \notin {"idle", "ended"}
    /\ active_sessions' = [s \in DOMAIN active_sessions \ {Sid}
                              |-> active_sessions[s]]
    /\ pc' = "cancelled"
    /\ UNCHANGED <<smVars, trVars, otherpc, start_history, routing_config,
                   classified,
                   openai_message>>
    /\ UNCHANGED <<engines, task_list, current_history, initial_history,
                   translation_results, translation_result, i, task_idx,
                   call, execution_log, last_successful_task_idx,
                   all_success, events, df, tempFiles, finalFile, toolLog,
                   translateLog>>

\* disconnect(sid) while the run of the client is going on: the session
\* entry is deleted, the task of the run is not touched
Disconnect ==
    /\ Sid \in DOMAIN active_sessions
    /\ pc \notin {"idle", "ended"}
    /\ active_sessions' = [s \in DOMAIN active_sessions \ {Sid}
                              |-> active_sessions[s]]
    /\ UNCHANGED <<smVars, runVars, trVars, otherpc, start_history,
                   routing_config, classified,
                   openai_message>>

\* a run on a document without earlier history (no step of the run
\* branches on what the history holds)
InitRunLive ==
    /\ InitRun
    /\ cache = <<>>

NextRunLive ==
    \/ NextRun
    \/ Disconnect

\* the task create_task started is scheduled until it returns: every
\* await of the run (emit, sleep) returns, and so does every capability
\* and engine call
SpecRunLive == InitRunLive /\ [][NextRunLive]_vars /\ WF_vars(NextRun)

(***************************************************************************)
(* Two runs of one client: the run above on document FileId, and a second  *)
(* run on another document, followed through what the two share: the       *)
(* SessionManager and the room of the client.                              *)
(***************************************************************************)

\* the document of the second run
OtherFileId == 2

\* a progress event of the second run, as it arrives in the room
OtherEvent(type) == [type |-> type, run |-> OtherFileId]

\* the entries of n more documents, each with one earlier round
Fillers(n) ==
    [p \in 1..n |-> [id |-> OtherFileId + p, history |-> PriorHistory(1)]]

\* the application's SessionManager(), empty or filled to its limit with
\* the document of the run (when it has a history) least recently used;
\* both documents are uploaded, the second has no history yet
InitTwo ==
    /\ MAX_CONCURRENT_SESSIONS = DefaultMaxSessions
    /\ MAX_HISTORY_ROUNDS = DefaultMaxRounds
    /\ \E k \in 0..DefaultMaxRounds, full \in BOOLEAN :
           LET own == IF k = 0 THEN <<>>
                      ELSE <<[id |-> FileId, history |-> PriorHistory(k)]>>
           IN  cache = IF full
                       THEN own \o Fillers(DefaultMaxSessions - Len(own))
                       ELSE own
    /\ lastOp = NoOp
    /\ prevOp = NoOp
    /\ accessTime = [d \in Docs |-> 0]
    /\ clock = 0
    /\ engines = {FileId, OtherFileId}
    /\ pc = "idle"
    /\ task_list = 0
    /\ current_history = <<>>
    /\ initial_history = <<>>
    /\ translation_results = <<>>
    /\ translation_result = Response("none", 0)
    /\ i = 0
    /\ task_idx = 0
    /\ call = 0
    /\ execution_log = <<>>
    /\ last_successful_task_idx = 0
    /\ all_success = TRUE
    /\ events = <<>>
    /\ df = <<>>
    /\ tempFiles = <<>>
    /\ finalFile = [exists |-> FALSE, data |-> <<>>]
    /\ toolLog = <<>>
    /\ translateLog = <<>>
    /\ NoTranslate
    /\ active_sessions = <<>>
    /\ otherpc = "idle"
    /\ start_history = <<>>
    /\ routing_config = <<>>
    /\ classified = <<>>
    /\ openai_message = <<>>

\* what a step of the second run leaves alone
OtherFrame ==
    UNCHANGED <<smConfig, smGhost, engines, pc, task_list, current_history,
                initial_history, translation_results, translation_result,
                i, task_idx, call, execution_log, last_successful_task_idx,
                all_success, df, tempFiles, finalFile, toolLog,
                translateLog, trVars, start_history, routing_config,
                classified,
                openai_message>>

\* start_execution of the second run, up to its first sleep
OtherStartExecution ==
    /\ otherpc = "idle"
    /\ pc # "ended"
    /\ active_sessions' =
           [s \in DOMAIN active_sessions \cup {Sid} |-> OtherFileId]
    /\ events' = Append(events, OtherEvent("start"))
    /\ otherpc' = "started"
    /\ UNCHANGED cache
    /\ OtherFrame

\* the second run reads the history of its document
OtherGetContext ==
    /\ otherpc = "started"
    /\ pc # "ended"
    /\ cache' = get_history_cache(cache, OtherFileId)
    /\ events' = Append(events, OtherEvent("translating"))
    /\ otherpc' = "translate"
    /\ UNCHANGED active_sessions
    /\ OtherFrame

\* the second run, a single command whose operation succeeds, from its
\* translation to its done event
OtherFinish ==
    /\ otherpc = "translate"
    /\ pc # "ended"
    /\ cache' = update_history(cache, OtherFileId, Command, Summary,
                               MAX_HISTORY_ROUNDS, MAX_CONCURRENT_SESSIONS)
    /\ events' = events \o <<OtherEvent("task_success"),
                             OtherEvent("done")>>
    /\ otherpc' = "ended"
    /\ UNCHANGED active_sessions
    /\ OtherFrame

\* the steps of the two runs, taken at the suspension points of each other
NextTwo ==
    \/ NextRun
    \/ OtherStartExecution
    \/ OtherGetContext
    \/ OtherFinish

SpecTwo == InitTwo /\ [][NextTwo]_vars

(***************************************************************************)
(* Two runs of execute_with_streaming on one document.  They share the     *)
(* SessionManager entry of the document; update_history holds no await,    *)
(* so a step of one run holds the whole call.                              *)
(***************************************************************************)

\* the command and the summary of the second run
OtherCommand == Text("command", 0, 1)
OtherSummary == Text("summary", 0, 1)

\* the client of the second run; its progress events go to its own room
OtherSid == "sid2"

\* the application's SessionManager() with one earlier round of the
\* document
InitSame ==
    /\ MAX_CONCURRENT_SESSIONS = DefaultMaxSessions
    /\ MAX_HISTORY_ROUNDS = DefaultMaxRounds
    /\ cache = <<[id |-> FileId, history |-> PriorHistory(1)]>>
    /\ lastOp = NoOp
    /\ prevOp = NoOp
    /\ accessTime = [d \in Docs |-> 0]
    /\ clock = 0
    /\ engines = {FileId}
    /\ pc = "idle"
    /\ task_list = 0
    /\ current_history = <<>>
    /\ initial_history = <<>>
    /\ translation_results = <<>>
    /\ translation_result = Response("none", 0)
    /\ i = 0
    /\ task_idx = 0
    /\ call = 0
    /\ execution_log = <<>>
    /\ last_successful_task_idx = 0
    /\ all_success = TRUE
    /\ events = <<>>
    /\ df = <<>>
    /\ tempFiles = <<>>
    /\ finalFile = [exists |-> FALSE, data |-> <<>>]
    /\ toolLog = <<>>
    /\ translateLog = <<>>
    /\ NoTranslate
    /\ active_sessions = <<>>
    /\ otherpc = "idle"
    /\ start_history = <<>>
    /\ routing_config = <<>>
    /\ classified = <<>>
    /\ openai_message = <<>>

\* start_execution of the second run, up to its first sleep
SameStartExecution ==
    /\ otherpc = "idle"
    /\ pc # "ended"
    /\ active_sessions' =
           [s \in DOMAIN active_sessions \cup {OtherSid} |->
               IF s = OtherSid THEN FileId ELSE active_sessions[s]]
    /\ otherpc' = "started"
    /\ UNCHANGED <<cache, events>>
    /\ OtherFrame

\* the second run reads the history of the document
SameGetContext ==
    /\ otherpc = "started"
    /\ pc # "ended"
    /\ cache' = get_history_cache(cache, FileId)
    /\ otherpc' = "translate"
    /\ UNCHANGED <<active_sessions, events>>
    /\ OtherFrame

\* the end of the second run with an update_history that writes back the
\* history read when the first run was started
SameFinishStale ==
    /\ otherpc = "translate"
    /\ pc # "ended"
    /\ cache' = update_history(
                    IF HasKey(cache, FileId)
                    THEN [p \in 1..Len(cache) |->
                             IF cache[p].id = FileId
                             THEN [cache[p] EXCEPT !.history = start_history]
                             ELSE cache[p]]
                    ELSE cache,
                    FileId, OtherCommand, OtherSummary,
                    MAX_HISTORY_ROUNDS, MAX_CONCURRENT_SESSIONS)
    /\ otherpc' = "ended"
    /\ UNCHANGED <<active_sessions, events>>
    /\ OtherFrame

\* the second run, a single command whose operation succeeds, from its
\* translation to its done event
SameFinish ==
    /\ otherpc = "translate"
    /\ pc # "ended"
    /\ cache' = update_history(cache, FileId, OtherCommand, OtherSummary,
                               MAX_HISTORY_ROUNDS, MAX_CONCURRENT_SESSIONS)
    /\ otherpc' = "ended"
    /\ UNCHANGED <<active_sessions, events>>
    /\ OtherFrame

\* the steps of the two runs, taken at the suspension points of each other
NextSame ==
    \/ NextRun
    \/ SameStartExecution
    \/ SameGetContext
    \/ SameFinish

SpecSame == InitSame /\ [][NextSame]_vars

(***************************************************************************)
(* AITranslator.translate: one call.                                       *)
(*                                                                         *)
(* The structured-call capability (client.chat.completions.create) is the  *)
(* environment: each call returns a message or raises, a rate-limit error  *)
(* (429) or another one.  A command is what the code reads of it: its      *)
(* length, whether it holds a configured complex marker, a configured      *)
(* contextual marker, a continuation word or a quoted part, whether it is  *)
(* a help phrase, and the first tool group one of whose keywords it holds. *)
(* Loading the marker lists and the prompts is taken to succeed, so no     *)
(* exception reaches the handler of translate itself: every capability     *)
(* call sits inside the `except Exception` of the method that makes it.    *)
(***************************************************************************)

\* len(command) < 50 of _is_complex_command, len(command) < 7 of
\* _is_contextual_command
ComplexLength == 50
ShortLength == 7

None == "None"

\* the lengths of the commands of the model
Lengths == {4, 9, 50}

\* the tool groups a configuration may hold, and those the router names
GroupNames == {"filling", "math"}
RouterGroups == GroupNames \cup {"analysis"}

\* get_all_tools(): the operation catalog
get_all_tools == {"set_column_value", "sum_columns"}

\* get_tools_by_names(tool_names)
get_tools_by_names(tool_names) == get_all_tools \cap tool_names

\* get_tools_definition(filter_tools): an empty filter is no filter
get_tools_definition(filter_tools) ==
    IF filter_tools # {} THEN get_tools_by_names(filter_tools)
    ELSE get_all_tools

\* _get_tool_groups(): the configured groups with their member operations;
\* no group when the configuration fails to load, and a group may hold no
\* operation
ToolGroupConfigs ==
    {<<>>}
        \cup {[g \in GroupNames |->
                  [tools |-> IF g = "filling" THEN {"set_column_value"}
                             ELSE m]] : m \in {{}, {"sum_columns"}}}

Commands(groups) ==
    [len : Lengths, complex_marker : BOOLEAN, contextual_marker : BOOLEAN,
     continuation : BOOLEAN, quoted : BOOLEAN, help : BOOLEAN,
     keyword_group : groups \cup {None}]

\* _detect_tool_group(command): the first group with a keyword in command
detect_tool_group(command) == command.keyword_group

\* _is_complex_command(command)
is_complex_command(command) ==
    IF command.complex_marker THEN TRUE
    ELSE IF command.len < ComplexLength THEN FALSE
    ELSE TRUE

\* _is_contextual_command(command, history)
is_contextual_command(command, h) ==
    IF command.contextual_marker THEN TRUE
    ELSE IF command.continuation THEN TRUE
    ELSE IF command.quoted /\ Len(h) > 0 THEN TRUE
    ELSE IF command.len < ShortLength /\ Len(h) > 0 THEN TRUE
    ELSE FALSE

\* Path A: history[-2:] if history and len(history) >= 2 else history
recent_history(h) == IF Len(h) >= 2 THEN PySliceLast(h, 2) ELSE h

\* an AIResponse: its variant, its success flag, the length of its
\* tool_calls or task_list, its tool_calls, its error_code and its
\* clarification
NoClarification == [question |-> None, options |-> <<>>]

AIResponse(type, n, names, code) ==
    [type |-> type, success |-> type # "error", n |-> n,
     tool_calls |-> names, error_code |-> code,
     clarification |-> NoClarification]

create_help_response == AIResponse("help", 0, <<>>, None)

create_friendly_message_response ==
    AIResponse("friendly_message", 0, <<>>, None)

create_clarification_response(question, options) ==
    [AIResponse("clarification", 0, <<>>, None)
         EXCEPT !.clarification = [question |-> question,
                                   options |-> options]]

create_tool_calls_response(names) ==
    AIResponse("tool_calls", Len(names), names, None)

create_task_list_response(n) == AIResponse("task_list", n, <<>>, None)

create_error_response(code) == AIResponse("error", 0, <<>>, code)

\* a tool call of a capability message: function.name and
\* function.arguments, a text that is no JSON ("malformed"), JSON that is
\* no object ("array"), or the JSON of the dictionary args
FunctionCall(name, json, args) == [name |-> name, json |-> json, args |-> args]

AskArguments ==
    [question_to_user |-> "q1", ambiguous_options |-> <<"o1", "o2">>]

\* the tool calls the translation call is followed with
ToolCallKinds ==
    {FunctionCall("set_column_value", "object", [column |-> "c1"]),
     FunctionCall("set_column_value", "malformed", <<>>),
     FunctionCall("ask_clarification_question", "object", AskArguments)}

\* message.tool_calls of a capability message
Messages == UNION {[1..n -> ToolCallKinds] : n \in 0..MaxCalls}

\* the tool calls the interpreter is followed with: both tools with each
\* kind of arguments, the clarification with, without and with other
\* question and options
AllToolCallKinds ==
    ToolCallKinds
        \cup {FunctionCall(name, json, <<>>) :
                  name \in {"set_column_value", "ask_clarification_question"},
                  json \in {"malformed", "array"}}
        \cup {FunctionCall("ask_clarification_question", "object", <<>>),
              FunctionCall("ask_clarification_question", "object",
                           [question_to_user |-> "q2"])}

AllMessages == UNION {[1..n -> AllToolCallKinds] : n \in 0..MaxCalls}

\* args.get(key, default)
dict_get(args, key, default) ==
    IF key \in DOMAIN args THEN args[key] ELSE default

\* ToolCall(tool_name=..., parameters=json.loads(arguments))
ToolCall(tc) == [tool_name |-> tc.name, parameters |-> tc.args]

\* the exception of the loop over message.tool_calls: json.loads raises
\* JSONDecodeError, ToolCall(...) a validation error for parameters that
\* are no dictionary; the first call that raises decides
conversion_error(message) ==
    LET x == CHOOSE y \in 1..Len(message) :
                 /\ message[y].json # "object"
                 /\ \A z \in 1..(y - 1) : message[z].json = "object"
    IN  IF message[x].json = "malformed" THEN "JSON_PARSE_ERROR"
        ELSE "RESPONSE_CONVERSION_ERROR"

\* from_openai_response that parses every tool call before it looks for
\* the clarification
from_openai_response_parse_all(message) ==
    IF Len(message) = 0 THEN create_friendly_message_response
    ELSE IF \E x \in 1..Len(message) : message[x].json # "object"
    THEN create_error_response(conversion_error(message))
    ELSE IF message[1].name = "ask_clarification_question"
    THEN create_clarification_response(
             dict_get(message[1].args, "question_to_user", ""),
             dict_get(message[1].args, "ambiguous_options", <<>>))
    ELSE create_tool_calls_response([x \in 1..Len(message) |->
                                         ToolCall(message[x])])

\* from_openai_response with the tool calls in reverse order
from_openai_response_reversed(message) ==
    IF Len(message) = 0 THEN create_friendly_message_response
    ELSE IF message[1].name = "ask_clarification_question"
    THEN IF message[1].json = "malformed"
         THEN create_error_response("JSON_PARSE_ERROR")
         ELSE IF message[1].json = "array"
         THEN create_error_response("RESPONSE_CONVERSION_ERROR")
         ELSE create_clarification_response(
                  dict_get(message[1].args, "question_to_user", ""),
                  dict_get(message[1].args, "ambiguous_options", <<>>))
    ELSE IF \E x \in 1..Len(message) : message[x].json # "object"
    THEN create_error_response(conversion_error(message))
    ELSE create_tool_calls_response(
             [x \in 1..Len(message) |->
                  ToolCall(message[Len(message) + 1 - x])])

\* AIResponse.from_openai_response(message)
from_openai_response(message) ==
    IF Len(message) = 0 THEN create_friendly_message_response
    ELSE IF message[1].name = "ask_clarification_question"
    THEN IF message[1].json = "malformed"
         THEN create_error_response("JSON_PARSE_ERROR")
         ELSE IF message[1].json = "array"
         THEN \* args.get on a value that is no dictionary
              create_error_response("RESPONSE_CONVERSION_ERROR")
         ELSE create_clarification_response(
                  dict_get(message[1].args, "question_to_user", ""),
                  dict_get(message[1].args, "ambiguous_options", <<>>))
    ELSE IF \E x \in 1..Len(message) : message[x].json # "object"
    THEN create_error_response(conversion_error(message))
    ELSE create_tool_calls_response([x \in 1..Len(message) |->
                                         ToolCall(message[x])])

\* what a capability call does: it raises, or returns a message
Outcome(kind, n, group, message) ==
    [kind |-> kind, n |-> n, group |-> group, message |-> message]

Failures == {Outcome(k, 0, None, <<>>) : k \in {"rate_limit", "error"}}

\* the coordinator call: no tool call, a tool other than
\* execute_tasks_in_order, or execute_tasks_in_order with n tasks
CoordinatorOutcomes ==
    Failures
        \cup {Outcome(k, 0, None, <<>>) : k \in {"no_call", "wrong_tool"}}
        \cup {Outcome("tasks", n, None, <<>>) : n \in 0..MaxTasks}

\* the router call: no tool call, a tool that is no route_to_ tool, or
\* route_to_<group>
RouterOutcomes ==
    Failures
        \cup {Outcome(k, 0, None, <<>>) : k \in {"no_call", "wrong_tool"}}
        \cup {Outcome("route", 0, g, <<>>) : g \in RouterGroups}

\* the single-task call
ExpertOutcomes ==
    Failures \cup {Outcome("message", 0, None, m) : m \in Messages}

\* a capability call: whose it is, the command and the history in its
\* messages, its tools, and what it did
CapRecord(kind, command, h, tls, o) ==
    [kind |-> kind, command |-> command, history |-> h, tools |-> tls,
     outcome |-> o]

\* _call_coordinator: the length of the task list it returns, 0 for None
\* (it returns no empty list)
call_coordinator(o) ==
    IF o.kind \in {"rate_limit", "error"} THEN 0        \* except Exception
    ELSE IF o.kind = "no_call" THEN 0
    ELSE IF o.kind = "wrong_tool" THEN 0
    ELSE o.n

\* _call_ai_router: the group name, or None
call_ai_router(o) ==
    IF o.kind \in {"rate_limit", "error"} THEN None     \* except Exception
    ELSE IF o.kind = "no_call" THEN None
    ELSE IF o.kind = "wrong_tool" THEN None
    ELSE o.group

\* `not tasks`, without the test for a single task
decomposition_unavailable_none(tasks) == tasks = 0

\* not tasks or len(tasks) == 1
decomposition_unavailable(tasks) == tasks = 0 \/ tasks = 1

InitTranslate ==
    /\ cache = <<>>
    /\ MAX_CONCURRENT_SESSIONS = DefaultMaxSessions
    /\ MAX_HISTORY_ROUNDS = DefaultMaxRounds
    /\ lastOp = NoOp
    /\ prevOp = NoOp
    /\ accessTime = [d \in Docs |-> 0]
    /\ clock = 0
    /\ NoRun
    /\ tool_groups \in ToolGroupConfigs
    /\ user_command \in Commands(DOMAIN tool_groups)
    /\ \E k \in 0..MaxRounds : translate_history = PriorHistory(k)
    /\ trpc = "call"
    /\ singleTaskCalls = <<>>
    /\ tools = {}
    /\ capLog = <<>>
    /\ result = <<>>
    /\ NoEnv

\* _translate_single_task(user_command, headers, history = h) up to its
\* first capability call: the help phrases, then keyword routing
BeginSingleTask(h) ==
    /\ singleTaskCalls' = Append(singleTaskCalls,
                                 [command |-> user_command, history |-> h])
    /\ IF user_command.help
       THEN /\ result' = create_help_response
            /\ trpc' = "returned"
            /\ UNCHANGED tools
       ELSE IF detect_tool_group(user_command) # None
       THEN /\ tools' = get_tools_definition(
                            tool_groups[detect_tool_group(user_command)].tools)
            /\ trpc' = "expert"
            /\ UNCHANGED result
       ELSE /\ trpc' = "router"
            /\ UNCHANGED <<tools, result>>

\* translate up to its first capability call
Translate ==
    /\ trpc = "call"
    /\ IF ~is_complex_command(user_command)
          /\ ~is_contextual_command(user_command, translate_history)
       THEN \* path A
            BeginSingleTask(recent_history(translate_history))
       ELSE IF ~is_complex_command(user_command)
       THEN \* path B
            BeginSingleTask(translate_history)
       ELSE \* path C
            /\ trpc' = "coordinator"
            /\ UNCHANGED <<singleTaskCalls, tools, result>>
    /\ UNCHANGED <<smVars, runVars, envVars, user_command, translate_history,
                   tool_groups, capLog>>

\* path C from the capability call of _call_coordinator on
CoordinatorReturns(o) ==
    /\ trpc = "coordinator"
    /\ capLog' = Append(capLog,
           CapRecord("coordinator", user_command, translate_history,
                     {"execute_tasks_in_order"}, o))
    /\ IF decomposition_unavailable(call_coordinator(o))
       THEN BeginSingleTask(translate_history)
       ELSE /\ result' = create_task_list_response(call_coordinator(o))
            /\ trpc' = "returned"
            /\ UNCHANGED <<singleTaskCalls, tools>>
    /\ UNCHANGED <<smVars, runVars, envVars, user_command, translate_history,
                   tool_groups>>

\* _translate_single_task from the capability call of _call_ai_router on
RouterReturns(o) ==
    /\ trpc = "router"
    /\ capLog' = Append(capLog,
           CapRecord("router", user_command, <<>>,
                     {"route_to_" \o g : g \in RouterGroups}, o))
    /\ IF call_ai_router(o) # None
       THEN IF call_ai_router(o) \in DOMAIN tool_groups
            THEN /\ tools' = get_tools_definition(
                                 tool_groups[call_ai_router(o)].tools)
                 /\ trpc' = "expert"
                 /\ UNCHANGED result
            ELSE \* KeyError, caught by the handler of the method
                 /\ result' = create_error_response("TRANSLATION_FAILED")
                 /\ trpc' = "returned"
                 /\ UNCHANGED tools
       ELSE /\ tools' = get_tools_definition({})
            /\ trpc' = "expert"
            /\ UNCHANGED result
    /\ UNCHANGED <<smVars, runVars, envVars, user_command, translate_history,
                   tool_groups, singleTaskCalls>>

\* _translate_single_task from its own capability call on
ExpertReturns(o) ==
    /\ trpc = "expert"
    /\ capLog' = Append(capLog,
           CapRecord("expert", user_command,
                     singleTaskCalls[Len(singleTaskCalls)].history,
                     tools, o))
    /\ result' = IF o.kind \in {"rate_limit", "error"}
                 THEN create_error_response("TRANSLATION_FAILED")
                 ELSE from_openai_response(o.message)
    /\ trpc' = "returned"
    /\ UNCHANGED <<smVars, runVars, envVars, user_command, translate_history,
                   tool_groups, singleTaskCalls, tools>>

NextTranslate ==
    \/ Translate
    \/ \E o \in CoordinatorOutcomes : CoordinatorReturns(o)
    \/ \E o \in RouterOutcomes : RouterReturns(o)
    \/ \E o \in ExpertOutcomes : ExpertReturns(o)

SpecTranslate == InitTranslate /\ [][NextTranslate]_vars

(***************************************************************************)
(* The two classifiers of AITranslator on the text of a command.           *)
(*                                                                         *)
(* A text is a sequence of characters.  The alphabet holds a letter in     *)
(* both cases, the double quote, the line break, the continuation word     *)
(* of one character and a character that is none of these.                 *)
(***************************************************************************)

Quote == "\""

LineBreak == "\n"

\* the character U+4E5F, the first of the continuation words
Ye == "ye"

Alphabet == {"a", "A", Quote, LineBreak, Ye, "x"}

\* str.lower() of one character
lower_char(c) == IF c = "A" THEN "a" ELSE c

\* str.lower()
lower(s) == [p \in 1..Len(s) |-> lower_char(s[p])]

\* sub in s
In(sub, s) ==
    \E p \in 0..(Len(s) - Len(sub)) :
        \A j \in 1..Len(sub) : s[p + j] = sub[j]

\* the texts of at most n characters
RECURSIVE Texts(_)
Texts(n) ==
    IF n = 0 THEN {<<>>}
    ELSE Texts(n - 1)
             \cup {Append(t, c) : t \in {u \in Texts(n - 1) : Len(u) = n - 1},
                                  c \in Alphabet}

\* s followed by "x" up to length n
RECURSIVE PadTo(_, _)
PadTo(s, n) == IF Len(s) >= n THEN s ELSE PadTo(Append(s, "x"), n)

\* the lengths on both sides of the two thresholds
PaddedLengths == {0, ShortLength - 1, ShortLength, ComplexLength - 1,
                  ComplexLength}

CommandTexts == {PadTo(t, n) : t \in Texts(MaxCore), n \in PaddedLengths}

\* get_routing_config(): a dictionary that may lack its keys
RoutingConfigs ==
    {<<>>}
        \cup {[complex_markers |-> cm, contextual_markers |-> xm] :
                  cm \in {<<>>, << <<"a", "A">> >>},
                  xm \in {<<>>, << <<"A">> >>}}

\* routing_config.get(key, [])
routing_config_get(config, key) ==
    IF key \in DOMAIN config THEN config[key] ELSE <<>>

\* _is_complex_command with the marker compared as configured
is_complex_command_text_as_configured(command, config) ==
    LET complex_markers == routing_config_get(config, "complex_markers")
        command_lower == lower(command)
    IN  IF \E m \in 1..Len(complex_markers) :
               In(complex_markers[m], command_lower)
        THEN TRUE
        ELSE IF Len(command) < ComplexLength THEN FALSE
        ELSE TRUE

\* _is_complex_command
is_complex_command_text(command, config) ==
    LET complex_markers == routing_config_get(config, "complex_markers")
        command_lower == lower(command)
    IN  IF \E m \in 1..Len(complex_markers) :
               In(lower(complex_markers[m]), command_lower)
        THEN TRUE
        ELSE IF Len(command) < ComplexLength THEN FALSE
        ELSE TRUE

\* the continuation words, by their characters
continuation_markers ==
    << <<Ye>>, <<"hai">>, <<"zai">>, <<"tong", "yang">>, <<"yi", "yang">>,
       <<"ji", "xu">>, <<"jie", "zhe">>, <<"ling", "wai">>,
       <<"tong", "shi">> >>

\* re.findall(r'["""](.*?)["""]', command): the positions of the opening
\* quotes of its matches; `.` matches no line break, so a match runs from a
\* double quote to the next one on the same line
quoted_terms(command) ==
    {p \in 1..Len(command) :
        /\ command[p] = Quote
        /\ \E q \in (p + 1)..Len(command) :
               /\ command[q] = Quote
               /\ \A j \in (p + 1)..(q - 1) :
                      command[j] \notin {Quote, LineBreak}}

\* _is_contextual_command
is_contextual_command_text(command, h, config) ==
    LET contextual_markers ==
            routing_config_get(config, "contextual_markers")
        command_lower == lower(command)
    IN  IF \E m \in 1..Len(contextual_markers) :
               In(lower(contextual_markers[m]), command_lower)
        THEN TRUE
        ELSE IF \E m \in 1..Len(continuation_markers) :
                    In(continuation_markers[m], command)
        THEN TRUE
        ELSE IF quoted_terms(command) # {} /\ h # <<>>
        THEN TRUE
        ELSE IF Len(command) < ShortLength /\ h # <<>>
        THEN TRUE
        ELSE FALSE

\* a command text, a history and a routing configuration, not yet
\* classified
InitClassify ==
    /\ cache = <<>>
    /\ MAX_CONCURRENT_SESSIONS = DefaultMaxSessions
    /\ MAX_HISTORY_ROUNDS = DefaultMaxRounds
    /\ lastOp = NoOp
    /\ prevOp = NoOp
    /\ accessTime = [d \in Docs |-> 0]
    /\ clock = 0
    /\ NoRun
    /\ user_command \in CommandTexts
    /\ translate_history \in {<<>>, PriorHistory(1)}
    /\ tool_groups = <<>>
    /\ trpc = "idle"
    /\ singleTaskCalls = <<>>
    /\ tools = {}
    /\ capLog = <<>>
    /\ result = <<>>
    /\ active_sessions = <<>>
    /\ otherpc = "none"
    /\ start_history = <<>>
    /\ routing_config \in RoutingConfigs
    /\ classified = <<>>
    /\ openai_message = <<>>

\* self._is_complex_command(user_command)
IsComplexCommand ==
    /\ "complex" \notin DOMAIN classified
    /\ classified' =
           ("complex" :> is_complex_command_text(user_command,
                                                routing_config))
               @@ classified
    /\ UNCHANGED <<smVars, runVars, trVars, active_sessions, otherpc,
                   start_history, routing_config,
                   openai_message>>

\* self._is_contextual_command(user_command, history)
IsContextualCommand ==
    /\ "contextual" \notin DOMAIN classified
    /\ classified' =
           ("contextual" :> is_contextual_command_text(
                                user_command, translate_history,
                                routing_config))
               @@ classified
    /\ UNCHANGED <<smVars, runVars, trVars, active_sessions, otherpc,
                   start_history, routing_config,
                   openai_message>>

NextClassify ==
    \/ IsComplexCommand
    \/ IsContextualCommand

SpecClassify == InitClassify /\ [][NextClassify]_vars

(***************************************************************************)
(* Keyword routing of a command text: _detect_tool_group(command).         *)
(***************************************************************************)

\* the keyword lists a tool group may be configured with
KeywordLists ==
    {<<>>, << <<"a">> >>, << <<"A">> >>, << <<"x">>, <<"a", "x">> >>}

\* get_tool_groups() as far as routing reads it: the groups in the order of
\* their declaration, each with its keywords
KeywordGroupConfigs ==
    {<<>>}
        \cup {<<[name |-> "filling", keywords |-> k]>> : k \in KeywordLists}
        \cup {<<[name |-> "filling", keywords |-> k],
                [name |-> "math", keywords |-> l]>> :
                  k \in KeywordLists, l \in KeywordLists}

\* _detect_tool_group(command) on a command text: the command is lowered,
\* the keywords are compared as configured
detect_tool_group_text(command, groups) ==
    LET command_lower == lower(command)
        hits == {g \in 1..Len(groups) :
                    \E k \in 1..Len(groups[g].keywords) :
                        In(groups[g].keywords[k], command_lower)}
    IN  IF hits = {} THEN None
        ELSE groups[CHOOSE g \in hits : \A h \in hits : g <= h].name

\* a command text and a tool group configuration, not yet routed
InitRoute ==
    /\ cache = <<>>
    /\ MAX_CONCURRENT_SESSIONS = DefaultMaxSessions
    /\ MAX_HISTORY_ROUNDS = DefaultMaxRounds
    /\ lastOp = NoOp
    /\ prevOp = NoOp
    /\ accessTime = [d \in Docs |-> 0]
    /\ clock = 0
    /\ NoRun
    /\ user_command \in Texts(MaxCore)
    /\ translate_history = <<>>
    /\ tool_groups \in KeywordGroupConfigs
    /\ trpc = "idle"
    /\ singleTaskCalls = <<>>
    /\ tools = {}
    /\ capLog = <<>>
    /\ result = <<>>
    /\ NoEnv

\* detected_group = self._detect_tool_group(user_command)
DetectToolGroup ==
    /\ "group" \notin DOMAIN classified
    /\ classified' =
           ("group" :> detect_tool_group_text(user_command, tool_groups))
               @@ classified
    /\ UNCHANGED <<smVars, runVars, trVars, active_sessions, otherpc,
                   start_history, routing_config, openai_message>>

NextRoute == DetectToolGroup

SpecRoute == InitRoute /\ [][NextRoute]_vars

(***************************************************************************)
(* One interpretation of a capability message:                             *)
(* AIResponse.from_openai_response(message).                               *)
(***************************************************************************)

\* a capability message, not yet interpreted
InitInterpret ==
    /\ cache = <<>>
    /\ MAX_CONCURRENT_SESSIONS = DefaultMaxSessions
    /\ MAX_HISTORY_ROUNDS = DefaultMaxRounds
    /\ lastOp = NoOp
    /\ prevOp = NoOp
    /\ accessTime = [d \in Docs |-> 0]
    /\ clock = 0
    /\ NoRun
    /\ NoTranslate
    /\ active_sessions = <<>>
    /\ otherpc = "none"
    /\ start_history = <<>>
    /\ routing_config = <<>>
    /\ classified = <<>>
    /\ openai_message \in AllMessages

\* return AIResponse.from_openai_response(message)
Interpret ==
    /\ trpc = "idle"
    /\ result' = from_openai_response(openai_message)
    /\ trpc' = "done"
    /\ UNCHANGED <<smVars, runVars, envVars, user_command,
                   translate_history, tool_groups, singleTaskCalls, tools,
                   capLog>>

NextInterpret == Interpret

SpecInterpret == InitInterpret /\ [][NextInterpret]_vars

(***************************************************************************)
(* Session memory: claims.                                                 *)
(***************************************************************************)

\* C3: for every document and every max_history_rounds >= 0, the stored
\* history holds at most 2 * max_history_rounds messages after any sequence
\* of get_history, update_history and clear_history calls.
C3_HistoryBounded ==
    \A x \in 1..Len(cache) : Len(cache[x].history) <= 2 * MAX_HISTORY_ROUNDS

\* C4: after every completed SessionManager operation the store holds at
\* most max_concurrent_sessions documents.
C4_StoreBounded == Len(cache) <= MAX_CONCURRENT_SESSIONS

\* an update_history has just evicted a document and the store is full
C4_Witness ==
    /\ lastOp.op = "update"
    /\ lastOp.evicted # <<>>
    /\ Len(cache) = MAX_CONCURRENT_SESSIONS

\* the document of c whose last access is the oldest
LeastRecentlyAccessed(c) ==
    CHOOSE d \in Keys(c) : \A e \in Keys(c) : accessTime[d] <= accessTime[e]

\* C5: when update_history for a new document makes the store exceed
\* max_concurrent_sessions, exactly one document is removed, it is the one
\* whose last access (a get_history that found it, or an update_history) is
\* the oldest, it is not the document just appended to, and the histories
\* of the remaining documents are unchanged.
C5_EvictsLeastRecentlyAccessed ==
    [][ ( /\ lastOp' # lastOp
          /\ lastOp'.op = "update"
          /\ ~HasKey(cache, lastOp'.doc)
          /\ Len(cache) + 1 > MAX_CONCURRENT_SESSIONS )
        =>
        ( /\ Len(lastOp'.evicted) = 1
          /\ lastOp'.evicted[1] = LeastRecentlyAccessed(cache)
          /\ lastOp'.evicted[1] # lastOp'.doc
          /\ Keys(cache') = (Keys(cache) \ {lastOp'.evicted[1]})
                                \cup {lastOp'.doc}
          /\ Len(cache') = Cardinality(Keys(cache'))
          /\ \A d \in Keys(cache') \ {lastOp'.doc} :
                 GetItem(cache', d) = GetItem(cache, d) ) ]_vars

\* an update_history of a new document has just evicted a document that was
\* not the first one inserted: an access in between changed the order
C5_Witness ==
    /\ lastOp.op = "update"
    /\ Len(lastOp.evicted) = 1
    /\ lastOp.evicted[1] # lastOp.doc
    /\ prevOp.op = "get"
    /\ prevOp.result # <<>>
    /\ HasKey(cache, prevOp.doc)
    /\ Len(cache) = 2

\* C6: get_history(doc) called immediately after update_history(doc, u, a)
\* returns a list whose last two messages are the user message u followed
\* by the assistant message a.
C6_GetAfterUpdate ==
    ( /\ lastOp.op = "get"
      /\ prevOp.op = "update"
      /\ prevOp.doc = lastOp.doc )
    =>
    ( /\ Len(lastOp.result) >= 2
      /\ lastOp.result[Len(lastOp.result) - 1] = Msg("user", prevOp.user)
      /\ lastOp.result[Len(lastOp.result)] =
             Msg("assistant", prevOp.assistant) )

\* a get_history right after an update_history that dropped the oldest
\* round of the same document
C6_Witness ==
    /\ lastOp.op = "get"
    /\ prevOp.op = "update"
    /\ prevOp.doc = lastOp.doc
    /\ prevOp.dropped = 2
    /\ Len(lastOp.result) = 2 * MAX_HISTORY_ROUNDS

(***************************************************************************)
(* Execution orchestrator: claims.                                         *)
(***************************************************************************)

LastEvent == events[Len(events)]

\* the run is over and its last event is done
RunDone == pc = "ended" /\ Len(events) > 0 /\ LastEvent.type = "done"

\* the run went through the decomposed loop
Decomposed == task_list > 0

\* the events of translating or executing a subtask
SubtaskEventTypes ==
    {"translating_subtask", "subtask_translated", "subtask_translate_failed",
     "task_start", "task_success", "task_error"}

\* C1: in a decomposed run, once an operation of subtask k is rejected by
\* the engine the run halts: no subtask after k is translated and no
\* operation of a subtask after k is executed.
C1_HaltsAfterRejection ==
    Decomposed =>
        /\ \A p, q \in 1..Len(toolLog) :
               (p < q /\ toolLog[p].outcome = "failure")
                   => toolLog[q].task <= toolLog[p].task
        /\ \A p, q \in 1..Len(events) :
               (p < q /\ events[p].type = "task_error"
                      /\ events[q].type \in SubtaskEventTypes)
                   => events[q].task <= events[p].task

\* the tasks of which the engine rejected an operation
FailedTasks ==
    {toolLog[p].task : p \in {q \in 1..Len(toolLog) :
                                  toolLog[q].outcome = "failure"}}

FirstFailedTask ==
    CHOOSE k \in FailedTasks : \A m \in FailedTasks : k <= m

\* engine.df as it was when the tasks before k were over
StateBefore(k) ==
    LET Earlier(t) == t[1] < k IN SelectSeq(df, Earlier)

\* C2: after a run in which subtask k fails execution, the persisted final
\* artifact equals the tabular state right after subtask k-1 succeeded: it
\* holds no effect of an operation of subtask k or of a later subtask.
C2_ArtifactIsStateBeforeFailedSubtask ==
    (RunDone /\ FailedTasks # {}) =>
        /\ finalFile.exists => finalFile.data = StateBefore(FirstFailedTask)
        /\ FirstFailedTask > 1 => finalFile.exists

\* the translate calls that returned a Clarification
ClarificationCalls ==
    {p \in 1..Len(translateLog) :
         translateLog[p].response.type = "clarification"}

\* C7: whenever a translation of the run, of the whole command or of a
\* subtask, yields a Clarification, the run emits clarify and stops: no
\* further subtask is translated or executed, and the run does not report
\* the clarification as a failure.
C7_ClarificationSurfaced ==
    (pc = "ended" /\ ClarificationCalls # {}) =>
        /\ LastEvent.type = "clarify"
        /\ ClarificationCalls = {Len(translateLog)}
        /\ \A p \in 1..Len(events) :
               events[p].type # "done" /\ events[p].type # "error"

\* C8: when an executed operation is flagged analysis-only, the run ends
\* at once with done(success = true), in the single-command path and in
\* the decomposed path; the call does not advance the checkpoint and no
\* artifact is saved for it.
C8_AnalysisEndsRun ==
    [][ ( /\ Len(toolLog') = Len(toolLog) + 1
          /\ toolLog'[Len(toolLog')].outcome = "analysis" )
        =>
        ( /\ pc' = "ended"
          /\ events'[Len(events')].type = "done"
          /\ events'[Len(events')].success
          /\ last_successful_task_idx' = last_successful_task_idx
          /\ finalFile' = finalFile
          /\ tempFiles' = tempFiles ) ]_vars

\* a translation failed or raised
TranslationFailed ==
    \E p \in 1..Len(translateLog) : ~translateLog[p].response.success

\* an operation was rejected by the engine or raised
ExecutionFailed ==
    \E p \in 1..Len(toolLog) : toolLog[p].outcome \in {"failure", "raise"}

\* the number of execute_tool calls of task k
CallsOf(k) == Cardinality({p \in 1..Len(toolLog) : toolLog[p].task = k})

\* every subtask of a decomposed run was translated to tool calls and all
\* its tool calls were executed
EverySubtaskExecuted ==
    Decomposed =>
        \A k \in 1..task_list :
            \E p \in 1..Len(translateLog) :
                /\ translateLog[p].command = Subtask(k)
                /\ translateLog[p].response.type = "tool_calls"
                /\ CallsOf(k) = translateLog[p].response.n

\* C9: the final done event reports success = true only if every subtask
\* was translated and executed without a translation or execution
\* failure; when some subtask failed, the run is reported as partial
\* success (not successful, artifact available) if the checkpoint is >= 1
\* and as total failure (not successful, no artifact) if it is 0.
C9_DoneReport ==
    RunDone =>
        /\ LastEvent.success =>
               /\ ~TranslationFailed
               /\ ~ExecutionFailed
               /\ EverySubtaskExecuted
        /\ (TranslationFailed \/ ExecutionFailed) =>
               /\ ~LastEvent.success
               /\ LastEvent.download_url = (last_successful_task_idx >= 1)
               /\ LastEvent.partial_success # "absent" =>
                      (LastEvent.partial_success = "true")
                          = (last_successful_task_idx >= 1)

\* a decomposed run is over: its first subtask succeeded, an operation of
\* its second subtask was rejected, and done reports a partial success
C9_Witness ==
    /\ RunDone
    /\ Decomposed
    /\ last_successful_task_idx >= 1
    /\ \E p \in 1..Len(toolLog) :
           toolLog[p].outcome = "failure" /\ toolLog[p].task = 2
    /\ ~LastEvent.success
    /\ LastEvent.download_url

\* the history stored for the document of the run
StoredHistory == get_history_result(cache, FileId)

\* the number of consolidated rounds in the stored history
ConsolidatedRounds ==
    Cardinality({p \in 1..Len(StoredHistory) :
                     StoredHistory[p] = Msg("user", Command)})

\* C10: every run that ends with checkpoint >= 1 saves a final artifact
\* that is the snapshot taken at the last checkpoint, and appends exactly
\* one consolidated round (the full command, a summary) to the document's
\* session history at finalization, in both paths.
C10_FinalArtifactAndRound ==
    (pc = "ended" /\ last_successful_task_idx >= 1) =>
        /\ finalFile.exists
        /\ finalFile.data = df
        /\ Len(StoredHistory) >= 2
        /\ SubSeq(StoredHistory, Len(StoredHistory) - 1, Len(StoredHistory))
               = Round(Command, Summary)
        /\ ConsolidatedRounds = 1

\* no event so far names a download location
NoDownloadReported ==
    \A p \in 1..Len(events) : ~events[p].download_url

\* C11: a run that ends with checkpoint 0 saves no artifact, reports no
\* download location and leaves the content of the document's session
\* history as it was at run start.  The checkpoint never goes back to 0, so
\* the run ends with checkpoint 0 exactly when every step of it leaves the
\* checkpoint at 0.
C11_NoCheckpointNoTrace ==
    [][ last_successful_task_idx' = 0
        =>
        ( /\ ~finalFile'.exists
          /\ tempFiles' = <<>>
          /\ \A p \in 1..Len(events') : ~events'[p].download_url
          /\ get_history_result(cache', FileId)
                 = get_history_result(cache, FileId) ) ]_vars

\* a run over a document with stored history is done with checkpoint 0
\* after the engine rejected an operation
C11_Witness ==
    /\ RunDone
    /\ last_successful_task_idx = 0
    /\ StoredHistory # <<>>
    /\ \E p \in 1..Len(toolLog) : toolLog[p].outcome = "failure"
    /\ NoDownloadReported

\* the caller is told how many subtasks succeeded: a hint event names the
\* checkpoint, or the done message of the single-command path does (it
\* names it exactly when partial_success is true)
ReportsSucceededCount ==
    \/ \E p \in 1..Len(events) :
           /\ events[p].type = "hint"
           /\ events[p].n = last_successful_task_idx
    \/ LastEvent.partial_success = "true"

\* C12: every partially failed run (a translation or an execution failed
\* and the checkpoint is >= 1), in the single-command path and in the
\* decomposed path, tells the caller how many subtasks succeeded and gives
\* a download location.
C12_PartialFailureReported ==
    ( /\ RunDone
      /\ TranslationFailed \/ ExecutionFailed
      /\ last_successful_task_idx >= 1 )
    =>
    ( /\ LastEvent.download_url
      /\ ReportsSucceededCount )

\* the history the run read at its start
RunStartHistory == translateLog[1].history

\* the rounds the successful operations of the subtasks before k leave, in
\* execution order
RECURSIVE SummariesBefore(_, _)
SummariesBefore(k, p) ==
    IF p = 0 THEN <<>>
    ELSE SummariesBefore(k, p - 1)
             \o ( IF toolLog[p].task < k
                     /\ toolLog[p].outcome \in {"success", "analysis"}
                  THEN Round(Subtask(toolLog[p].task),
                             ResultMessage(toolLog[p].task, toolLog[p].call))
                  ELSE <<>> )

\* C18: in a decomposed run the history passed to the translation of
\* subtask k is the history available at run start followed by the
\* execution summaries of subtasks 1..k-1 of this run, for every k and
\* every run-start history length up to the cap.
C18_SubtaskHistory ==
    \A p \in 1..Len(translateLog) :
        \A k \in 1..task_list :
            translateLog[p].command = Subtask(k)
                => translateLog[p].history
                       = RunStartHistory \o SummariesBefore(k, Len(toolLog))

\* the index of the loop of the path the run is in
LoopIndex == IF Decomposed THEN i ELSE task_idx

\* C19: within one run the checkpoint index starts at 0, never decreases,
\* and is set to i only at a step where an operation of subtask i has just
\* succeeded.
C19_CheckpointMonotone ==
    /\ last_successful_task_idx = 0
    /\ [][ /\ last_successful_task_idx' >= last_successful_task_idx
           /\ last_successful_task_idx' # last_successful_task_idx
                  => /\ Len(toolLog') = Len(toolLog) + 1
                     /\ toolLog'[Len(toolLog')].outcome
                            \in {"success", "analysis"}
                     /\ toolLog'[Len(toolLog')].task = LoopIndex
                     /\ last_successful_task_idx' = LoopIndex ]_vars

\* the checkpoint has just moved from subtask 1 to subtask 2
C19_Witness ==
    /\ Decomposed
    /\ last_successful_task_idx = 2
    /\ Len(toolLog) >= 2
    /\ toolLog[Len(toolLog)] = ToolCallRecord(2, 1, "success")
    /\ toolLog[Len(toolLog) - 1].task = 1
    /\ toolLog[Len(toolLog) - 1].outcome = "success"

\* the number of subtasks of the run: those of the task list, or the one
\* command
NumSubtasks == IF Decomposed THEN task_list ELSE 1

\* the translate call of subtask k
TranslationOf(k) == translateLog[IF Decomposed THEN k + 1 ELSE 1]

\* the run is over, every subtask of it was translated to ToolCalls and
\* every operation executed succeeded
AllSucceededRun ==
    /\ pc = "ended"
    /\ translateLog # <<>>
    /\ translateLog[1].response.type \in {"tool_calls", "task_list"}
    /\ \A p \in 2..Len(translateLog) :
           translateLog[p].response.type = "tool_calls"
    /\ \A p \in 1..Len(toolLog) : toolLog[p].outcome = "success"

\* the positions in events of the events of type t for subtask k
EventsOf(t, k) ==
    {p \in 1..Len(events) : events[p].type = t /\ events[p].task = k}

Returned == trpc = "returned"

\* the positions in capLog of the capability calls of one kind
CallsOfKind(kind) == {p \in 1..Len(capLog) : capLog[p].kind = kind}

\* the decomposition call returned a task list of at most one subtask
DecomposedToAtMostOne ==
    /\ capLog # <<>>
    /\ capLog[1].kind = "coordinator"
    /\ capLog[1].outcome.kind = "tasks"
    /\ capLog[1].outcome.n <= 1

\* C13: when the decomposition of a compound command yields exactly one
\* subtask (or none), translate performs exactly one single-task
\* translation, of the original command with the full available history,
\* and returns its result and no task list, as the contextual path does;
\* the decomposer is not called again and the lone subtask is not
\* translated on its own.
C13_OneSubtaskFallsBack ==
    (Returned /\ DecomposedToAtMostOne) =>
        /\ singleTaskCalls = <<[command |-> user_command,
                                history |-> translate_history]>>
        /\ CallsOfKind("coordinator") = {1}
        /\ Cardinality(CallsOfKind("expert")) <= 1
        /\ \A p \in CallsOfKind("expert") :
               /\ capLog[p].command = user_command
               /\ capLog[p].history = translate_history
               /\ p = Len(capLog)
               /\ result = IF capLog[p].outcome.kind = "message"
                           THEN from_openai_response(
                                    capLog[p].outcome.message)
                           ELSE create_error_response("TRANSLATION_FAILED")
        /\ result.type # "task_list"

\* a compound command with stored history was decomposed into exactly one
\* subtask and translate returned tool calls
C13_Witness ==
    /\ Returned
    /\ DecomposedToAtMostOne
    /\ capLog[1].outcome.n = 1
    /\ translate_history # <<>>
    /\ result.type = "tool_calls"

\* C14: for a command classified not compound, translate attaches no
\* history to the translation request when the command is not
\* context-dependent, whatever the history is, and the complete available
\* history when it is context-dependent.
C14_HistoryAttached ==
    ~is_complex_command(user_command) =>
        \A p \in CallsOfKind("expert") :
            capLog[p].history =
                IF is_contextual_command(user_command, translate_history)
                THEN translate_history
                ELSE <<>>

\* C15: a rate-limit signal raised by the capability during the
\* decomposition call is not swallowed: translate makes no further call
\* and raises the signal to its caller.
C15_DecompositionRateLimitRaised ==
    \A p \in CallsOfKind("coordinator") :
        capLog[p].outcome.kind = "rate_limit"
            => /\ p = Len(capLog)
               /\ trpc = "raised"

\* C16: a rate-limit signal raised by the capability during the routing
\* call or the single-task translation call reaches the caller of
\* translate untouched, and no further capability call is made after it.
C16_RateLimitRaised ==
    \A p \in CallsOfKind("router") \cup CallsOfKind("expert") :
        capLog[p].outcome.kind = "rate_limit"
            => /\ p = Len(capLog)
               /\ trpc = "raised"

\* AI routing named a configured group
RouterResolved ==
    \E p \in CallsOfKind("router") :
        /\ capLog[p].outcome.kind = "route"
        /\ capLog[p].outcome.group \in DOMAIN tool_groups

\* C17: for every command that is no help phrase and every outcome of the
\* routing levels, single-task translation reaches the capability with a
\* non-empty candidate set; when neither keyword routing nor AI routing
\* resolves a configured group, the set is the full catalog.
C17_CandidateSetNonEmpty ==
    (Returned /\ singleTaskCalls # <<>> /\ ~user_command.help) =>
        /\ CallsOfKind("expert") # {}
        /\ \A p \in CallsOfKind("expert") :
               /\ capLog[p].tools # {}
               /\ (detect_tool_group(user_command) = None
                       /\ ~RouterResolved)
                      => capLog[p].tools = get_all_tools

\* the response the run is about to handle is a Help or a FriendlyMessage
Informational(r) == r.type \in {"help", "friendly_message"}

\* the step of the decomposed loop that translates subtask i to a Help or a
\* FriendlyMessage
InformationalSubtaskStep ==
    /\ pc = "subtask"
    /\ Len(translateLog') = Len(translateLog) + 1
    /\ Informational(translateLog'[Len(translateLog')].response)

\* the step of the single-command loop that handles such a response
InformationalTaskStep ==
    /\ pc = "task"
    /\ Informational(translation_results[task_idx])
    /\ pc' # pc \/ task_idx' # task_idx

\* C26: a subtask whose translation is Help or FriendlyMessage has its
\* message recorded in the execution log, executes no operation, leaves the
\* tabular state and the checkpoint unchanged, does not mark the run as
\* failed, and the run advances to the next subtask (or to the code after
\* the loop), in the decomposed path as in the single-command path.
C26_InformationalSubtask ==
    [][ /\ InformationalSubtaskStep =>
            /\ execution_log' = Append(execution_log, LogLine("info", i))
            /\ toolLog' = toolLog
            /\ df' = df
            /\ last_successful_task_idx' = last_successful_task_idx
            /\ all_success' = all_success
            /\ IF i < task_list
               THEN i' = i + 1 /\ pc' = "subtask"
               ELSE pc' = "save"
        /\ InformationalTaskStep =>
            /\ execution_log' = Append(execution_log,
                                       LogLine("info", task_idx))
            /\ toolLog' = toolLog
            /\ df' = df
            /\ last_successful_task_idx' = last_successful_task_idx
            /\ all_success' = all_success
            /\ IF task_idx < Len(translation_results)
               THEN task_idx' = task_idx + 1 /\ pc' = "task"
               ELSE pc' = "finish" ]_vars

\* the positions of translateLog where a subtask was translated to an Error
\* response
FailedSubtaskTranslations ==
    {p \in 1..Len(translateLog) :
        /\ translateLog[p].command.kind = "subtask"
        /\ translateLog[p].response.type = "error"}

\* C27: in a decomposed run, when the translation of subtask k fails (Error
\* response), the run emits subtask_translate_failed for k, executes no
\* operation of subtask k, and neither translates nor executes a subtask
\* j > k.
C27_FailedTranslationStops ==
    \A p \in FailedSubtaskTranslations :
        LET k == translateLog[p].command.a IN
        /\ \E e \in 1..Len(events) :
               events[e] = Event("subtask_translate_failed", k)
        /\ \A t \in 1..Len(toolLog) : toolLog[t].task < k
        /\ \A q \in 1..Len(translateLog) :
               translateLog[q].command.kind = "subtask"
                   => translateLog[q].command.a <= k

\* a finished decomposed run whose first subtask failed to translate while
\* a second subtask was waiting
C27_Witness ==
    /\ pc = "ended"
    /\ task_list >= 2
    /\ \E p \in FailedSubtaskTranslations : translateLog[p].command.a = 1
    /\ LastEvent.type = "done"

\* C28: decomposition is invoked at most once per run and the subtask list
\* it produced is the only one used: the translation of a subtask of a
\* decomposed run never yields a TaskList response (which only a second
\* call of the decomposer produces).
C28_NoNestedDecomposition ==
    \A p \in 1..Len(translateLog) :
        translateLog[p].command.kind = "subtask"
            => ~is_task_list_response(translateLog[p].response)

\* the operations of subtask k that succeeded
SucceededCallsOf(k) ==
    Cardinality({p \in 1..Len(toolLog) :
                    /\ toolLog[p].task = k
                    /\ result_get_success(toolLog[p].outcome)})

\* subtask k of a decomposed run was translated to tool calls and every one
\* of them succeeded
SubtaskSucceeded(k) ==
    /\ Len(translateLog) >= k + 1
    /\ is_tool_calls_response(TranslationOf(k).response)
    /\ SucceededCallsOf(k) = TranslationOf(k).response.n

\* the rounds of history h whose user message is the text of subtask k
RoundsOf(h, k) ==
    Cardinality({q \in 1..Len(h) : h[q] = Msg("user", Subtask(k))})

\* C30: in a decomposed run, each subtask that executes successfully
\* appends exactly one round (subtask text, execution summary) to the
\* history of the document before the next subtask is translated, however
\* many operations its translation contained.
C30_OneRoundPerSubtask ==
    Decomposed =>
        \A k \in 1..(Len(translateLog) - 2) :
            SubtaskSucceeded(k)
                => RoundsOf(TranslationOf(k + 1).history, k) = 1

\* what the decomposition call of the translate call returned, when there
\* was one
CoordinatorOutcome == capLog[1].outcome

\* C29: every TaskList response translate returns holds at least two
\* subtasks, the tasks of the decomposition call: a decomposition result
\* with no structured call, an empty list or a single element is never
\* surfaced as a TaskList.
C29_TaskListAtLeastTwo ==
    (Returned /\ result.type = "task_list")
        => /\ result.n >= 2
           /\ CallsOfKind("coordinator") = {1}
           /\ CoordinatorOutcome.kind = "tasks"
           /\ CoordinatorOutcome.n = result.n

\* translate returned the two tasks of the decomposition call as a TaskList
C29_Witness ==
    /\ Returned
    /\ result.type = "task_list"
    /\ result.n = 2
    /\ Len(capLog) = 1

\* the run has emitted its terminal event: done, error, or the
\* clarification question it ends with
Terminal ==
    /\ pc = "ended"
    /\ LastEvent.type \in {"done", "error", "clarify"}

\* C23: every started run eventually reaches a terminal state (done, error
\* or clarification pending), provided each capability and engine call
\* returns or raises; a disconnect of the client during the run does not
\* cancel it.
C23_RunTerminates == (pc = "started") ~> Terminal

\* a run that executed an operation and reached done after its client had
\* disconnected
C23_Witness ==
    /\ Terminal
    /\ LastEvent.type = "done"
    /\ toolLog # <<>>
    /\ Sid \notin DOMAIN active_sessions

\* the history the document of the run holds after the first p operations
\* of a decomposed run, as the run itself builds it from the history
\* stored at its start
RECURSIVE OwnHistoryAfter(_)
OwnHistoryAfter(p) ==
    IF p = 0 THEN start_history
    ELSE IF result_get_success(toolLog[p].outcome)
    THEN Truncate(OwnHistoryAfter(p - 1)
                      \o Round(Subtask(toolLog[p].task),
                               ResultMessage(toolLog[p].task,
                                             toolLog[p].call)),
                  MAX_HISTORY_ROUNDS)
    ELSE OwnHistoryAfter(p - 1)

\* the number of operations of the subtasks before subtask k
CallsBefore(k) == Cardinality({p \in 1..Len(toolLog) : toolLog[p].task < k})

\* the history the document holds when the run is over, as the run itself
\* builds it
OwnFinalHistory ==
    IF Decomposed THEN OwnHistoryAfter(Len(toolLog))
    ELSE IF last_successful_task_idx > 0
    THEN Truncate(start_history \o Round(Command, Summary),
                  MAX_HISTORY_ROUNDS)
    ELSE start_history

\* C21: for documents A # B, a run on B interleaved at the suspension
\* points of a run on A changes nothing the run on A observes or writes:
\* the history the run on A passes to each of its translations, and the
\* history stored for A when the run is over, are those of the run on A
\* alone (the history stored at its start and the rounds it appended).
C21_RunIsolation ==
    /\ pc = "translate" => current_history = start_history
    /\ translateLog # <<>> => translateLog[1].history = start_history
    /\ Decomposed =>
           \A k \in 1..(Len(translateLog) - 1) :
               translateLog[k + 1].history = OwnHistoryAfter(CallsBefore(k))
    /\ pc = "ended" => StoredHistory = OwnFinalHistory

\* an event of the second run
IsOther(e) == "run" \in DOMAIN e

\* C22: in the room of one client the progress events of a run arrive in
\* the order the run produced them and are never interleaved with events
\* of another run, also when the client starts a second run before the
\* first has reached its terminal event: no event of the second run lies
\* between two events of the first.
C22_EventsNotInterleaved ==
    \A p, q, r \in 1..Len(events) :
        (p < q /\ q < r) =>
            ~( /\ ~IsOther(events[p])
               /\ IsOther(events[q])
               /\ ~IsOther(events[r]) )

\* two characters that are the same letter, whatever their case
SameLetter(x, y) == x = y \/ {x, y} = {"a", "A"}

\* the text holds the marker, compared case-insensitively
HoldsIgnoringCase(text, marker) ==
    \E p \in 0..(Len(text) - Len(marker)) :
        \A j \in 1..Len(marker) : SameLetter(text[p + j], marker[j])

\* the configured markers of one kind
Configured(key) ==
    IF key \in DOMAIN routing_config
    THEN {routing_config[key][m] : m \in 1..Len(routing_config[key])}
    ELSE {}

HoldsComplexMarker ==
    \E marker \in Configured("complex_markers") :
        HoldsIgnoringCase(user_command, marker)

\* C24: isCompound(command) is true exactly when the command holds a
\* configured complex marker (compared case-insensitively) or its length is
\* at least 50 characters; so it is false for every marker-free command
\* shorter than 50 and true for every command that holds a marker, whatever
\* its length.
C24_IsCompound ==
    "complex" \in DOMAIN classified =>
        /\ classified.complex
               = (HoldsComplexMarker \/ Len(user_command) >= ComplexLength)
        /\ (~HoldsComplexMarker /\ Len(user_command) < ComplexLength)
               => ~classified.complex
        /\ HoldsComplexMarker => classified.complex

\* a short command classified compound for a marker it holds in another
\* case than configured
C24_Witness ==
    /\ "complex" \in DOMAIN classified
    /\ classified.complex
    /\ Len(user_command) < ShortLength
    /\ \E marker \in Configured("complex_markers") :
           /\ HoldsIgnoringCase(user_command, marker)
           /\ ~In(marker, user_command)

HoldsContextualMarker ==
    \E marker \in Configured("contextual_markers") :
        HoldsIgnoringCase(user_command, marker)

HoldsContinuationWord ==
    \E m \in 1..Len(continuation_markers) :
        In(continuation_markers[m], user_command)

\* the text holds a quoted substring: two double quotes and what is
\* between them
HoldsQuoted ==
    \E p, q \in 1..Len(user_command) :
        /\ p < q
        /\ user_command[p] = Quote
        /\ user_command[q] = Quote

\* C25: isContextDependent(command, history) is true exactly when the
\* command holds a contextual marker, or holds a continuation word, or the
\* history is not empty and the command holds a quoted substring, or the
\* history is not empty and the command is shorter than 7 characters; so it
\* is false for an empty history and a command of 7 or more characters
\* without marker, continuation word and quote.
C25_IsContextDependent ==
    "contextual" \in DOMAIN classified =>
        /\ classified.contextual
               = ( \/ HoldsContextualMarker
                   \/ HoldsContinuationWord
                   \/ translate_history # <<>> /\ HoldsQuoted
                   \/ translate_history # <<>>
                          /\ Len(user_command) < ShortLength )
        /\ ( /\ translate_history = <<>>
             /\ Len(user_command) >= ShortLength
             /\ ~HoldsContextualMarker
             /\ ~HoldsContinuationWord
             /\ ~HoldsQuoted )
               => ~classified.contextual

\* the last n elements of lst, all of them when it holds fewer
MostRecent(lst, n) ==
    LET kept == IF n < Len(lst) THEN n ELSE Len(lst)
    IN  [p \in 1..kept |-> lst[Len(lst) - kept + p]]

\* the step is update_history(doc, u, a)
UpdateStep == lastOp'.op = "update" /\ lastOp'.at = clock + 1

\* C35: update_history(doc, u, a) stores exactly the most recent messages of
\* the previous history of doc followed by the new round: when the cap of
\* 2 * max_history_rounds messages is exceeded the oldest messages are the
\* ones dropped, and the order of the kept messages is unchanged.
C35_KeepsMostRecent ==
    [][ UpdateStep =>
            get_history_result(cache', lastOp'.doc)
                = MostRecent(get_history_result(cache, lastOp'.doc)
                                 \o Round(lastOp'.user, lastOp'.assistant),
                             2 * MAX_HISTORY_ROUNDS) ]_vars

\* the step is clear_history(doc)
ClearStep == lastOp'.op = "clear" /\ lastOp'.at = clock + 1

\* the entries of the cache without that of document d, in their order
RECURSIVE Without(_, _)
Without(c, d) ==
    IF c = <<>> THEN <<>>
    ELSE IF Head(c).id = d THEN Without(Tail(c), d)
    ELSE <<Head(c)>> \o Without(Tail(c), d)

\* C36: clear_history(doc) removes the entry of doc entirely, so that a
\* following get_history(doc) returns the empty list and the store holds one
\* document fewer; it leaves the history and the relative recency order of
\* every other document unchanged, and on a document without entry it
\* changes nothing.
C36_ClearFrame ==
    [][ ClearStep =>
            /\ ~HasKey(cache', lastOp'.doc)
            /\ get_history_result(cache', lastOp'.doc) = <<>>
            /\ cache' = Without(cache, lastOp'.doc)
            /\ HasKey(cache, lastOp'.doc) => Len(cache') = Len(cache) - 1
            /\ ~HasKey(cache, lastOp'.doc) => cache' = cache ]_vars

\* clear_history of a document that had an entry, with another document
\* left in the store
C36_Witness ==
    /\ lastOp.op = "clear"
    /\ prevOp.op = "update"
    /\ prevOp.doc = lastOp.doc
    /\ prevOp.evicted = <<>>
    /\ Len(cache) >= 1

(***************************************************************************)
(* The interpreter: claims.                                                *)
(***************************************************************************)

Interpreted == trpc = "done" /\ openai_message # <<>>

IsAsk(tc) == tc.name = "ask_clarification_question"

\* C40: no ToolCalls response of the interpreter holds the reserved
\* ask_clarification_question operation, wherever that operation stands
\* among the tool calls of the message.
C40_NoClarificationInToolCalls ==
    (Interpreted /\ result.type = "tool_calls") =>
        \A x \in 1..Len(result.tool_calls) :
            result.tool_calls[x].tool_name # "ask_clarification_question"

FirstIsAsk == Len(openai_message) >= 1 /\ IsAsk(openai_message[1])

\* the Clarification that carries the question and the options of the
\* first tool call ("" and no options where the arguments name none)
ClarificationOfFirst ==
    /\ result.type = "clarification"
    /\ result.success
    /\ result.clarification =
           [question |-> dict_get(openai_message[1].args,
                                  "question_to_user", ""),
            options |-> dict_get(openai_message[1].args,
                                 "ambiguous_options", <<>>)]
    /\ result.tool_calls = <<>>
    /\ result.n = 0

ParseFailureCodes == {"JSON_PARSE_ERROR", "RESPONSE_CONVERSION_ERROR"}

NoObject(json) ==
    {x \in 1..Len(openai_message) : openai_message[x].json = json}

\* C33: for a message of one or more tool calls whose first call is not
\* the clarification, the interpreter returns Error with a parse-failure
\* code and no tool call when the arguments of some call are no JSON
\* object (JSON_PARSE_ERROR when every such call holds no JSON at all), and
\* otherwise ToolCalls with one ToolCall per tool call of the message, of
\* its name and arguments, in the order of the message.
C33_ParseAllOrError ==
    (Interpreted /\ Len(openai_message) >= 1 /\ ~FirstIsAsk) =>
        IF NoObject("malformed") \cup NoObject("array") # {}
        THEN /\ result.type = "error"
             /\ ~result.success
             /\ result.error_code \in ParseFailureCodes
             /\ NoObject("array") = {}
                    => result.error_code = "JSON_PARSE_ERROR"
             /\ result.tool_calls = <<>>
             /\ result.n = 0
        ELSE /\ result.type = "tool_calls"
             /\ result.success
             /\ Len(result.tool_calls) = Len(openai_message)
             /\ result.n = Len(openai_message)
             /\ \A x \in 1..Len(openai_message) :
                    result.tool_calls[x] =
                        [tool_name |-> openai_message[x].name,
                         parameters |-> openai_message[x].args]

\* a tool call with an argument object followed by one whose arguments are
\* no JSON: the response is the error and holds neither
C33_Witness ==
    /\ Interpreted
    /\ Len(openai_message) = 2
    /\ ~IsAsk(openai_message[1])
    /\ openai_message[1].json = "object"
    /\ openai_message[2].json = "malformed"
    /\ result.type = "error"
    /\ result.error_code = "JSON_PARSE_ERROR"

(***************************************************************************)
(* The translator: help, keyword routing.                                  *)
(***************************************************************************)

\* C34: for a command that, trimmed and lowered, is a help phrase,
\* translate returns a Help response and makes no capability call (neither
\* decomposition nor routing nor translation).
C34_HelpWithoutCapability ==
    user_command.help =>
        /\ capLog = <<>>
        /\ Returned => result.type = "help"

\* the groups one of whose keywords occurs in the command when both are
\* compared without regard to letter case
GroupsHeld ==
    {g \in 1..Len(tool_groups) :
        \E k \in 1..Len(tool_groups[g].keywords) :
            In(lower(tool_groups[g].keywords[k]), lower(user_command))}

\* C31: keyword routing returns the first group, in the order of the
\* configuration, one of whose keywords occurs in the command as a
\* substring when letter case is ignored on both sides, and no group only
\* when no keyword of any group occurs.
C31_FirstKeywordGroup ==
    "group" \in DOMAIN classified =>
        IF GroupsHeld = {} THEN classified.group = None
        ELSE classified.group =
                 tool_groups[CHOOSE g \in GroupsHeld :
                                 \A h \in GroupsHeld : g <= h].name

(***************************************************************************)
(* The orchestrator: order of the progress events.                         *)
(***************************************************************************)

\* the place of an event type among the events of one subtask
Rank(type) ==
    IF type = "translating_subtask" THEN 1
    ELSE IF type \in {"subtask_translated", "subtask_translate_failed"}
    THEN 2
    ELSE IF type = "task_start" THEN 3
    ELSE 4

HasTask(e) == e.task >= 1

\* the events that carry a task index, in the order of their emission
SubtaskEvents == SelectSeq(events, HasTask)

TypeAt(t) == {p \in 1..Len(events) : events[p].type = t}

Returns == SelectSeq(toolLog, LAMBDA x : x.outcome # "raise")

Outcomes ==
    SelectSeq(events, LAMBDA e : e.type \in {"task_success", "task_error"})

\* C37: in a decomposed run the events of one subtask come in the order
\* translating_subtask, subtask_translated, task_start and then one
\* task_success or task_error per operation the engine returned from, each
\* of the first three once and none without the one before it; every event
\* of a subtask precedes every event of a later subtask; task_split
\* precedes them all; saving is emitted only with a checkpoint of 1 or
\* more, and before done.
C37_DecomposedEventOrder ==
    task_list > 0 =>
        /\ \A p \in 1..Len(SubtaskEvents) :
               LET b == SubtaskEvents[p]
               IN  IF p = 1 THEN Rank(b.type) = 1
                   ELSE LET a == SubtaskEvents[p - 1]
                        IN  \/ /\ a.task = b.task
                               /\ \/ Rank(b.type) = Rank(a.type) + 1
                                  \/ Rank(a.type) = 4 /\ Rank(b.type) = 4
                               /\ Rank(b.type) = 3
                                      => a.type = "subtask_translated"
                            \/ /\ a.task < b.task
                               /\ Rank(b.type) = 1
        /\ Len(Outcomes) = Len(Returns)
        /\ \A x \in 1..Len(Outcomes) : Outcomes[x].task = Returns[x].task
        /\ TypeAt("task_split") # {}
        /\ \A p \in TypeAt("task_split") :
               \A q \in 1..p : events[q].task = 0
        /\ TypeAt("saving") # {} => last_successful_task_idx >= 1
        /\ \A q \in TypeAt("done") :
               /\ last_successful_task_idx >= 1
                      => \E p \in TypeAt("saving") : p < q
               /\ \A p \in TypeAt("saving") : p < q

\* a decomposed run of two subtasks that has ended: both were executed,
\* the file was saved
C37_Witness ==
    /\ pc = "ended"
    /\ task_list = 2
    /\ EventsOf("task_success", 1) # {}
    /\ EventsOf("task_start", 2) # {}
    /\ EventsOf("task_error", 2) # {}
    /\ TypeAt("saving") # {}
    /\ TypeAt("done") # {}

TerminalTypes == {"done", "error", "clarify"}

TerminalEvents == {p \in 1..Len(events) : events[p].type \in TerminalTypes}

\* C39: the first progress event of a run is `start`; a run that has ended
\* has emitted exactly one terminal event (done, error or clarify), as its
\* last event; a run that has not ended has emitted none.
C39_StartFirstOneTerminal ==
    /\ events # <<>> => events[1].type = "start"
    /\ pc # "idle" => events # <<>>
    /\ \A p \in 2..Len(events) : events[p].type # "start"
    /\ pc = "ended" => TerminalEvents = {Len(events)}
    /\ pc # "ended" => TerminalEvents = {}

\* a run on an unknown document id that has ended: start, then error
C39_Witness ==
    /\ pc = "ended"
    /\ FileId \notin engines
    /\ Len(events) = 2
    /\ events[1].type = "start"
    /\ events[2].type = "error"

(***************************************************************************)
(* Two runs on one document: claims.                                       *)
(***************************************************************************)

\* the round the update_history call behind a progress event of the first
\* run appends: the success of an operation in the decomposed loop, the
\* analysis result and the saving step of the single-command path
RoundBehind(e) ==
    IF e.type = "task_success" /\ task_list > 0
    THEN Round(Subtask(e.task), ResultMessage(e.task, call))
    ELSE IF e.type = "analysis_result" THEN Round(Command, Summary)
    ELSE IF e.type = "saving" /\ task_list = 0 THEN Round(Command, Summary)
    ELSE <<>>

\* the rounds of the update_history calls of a step, in call order
RECURSIVE RoundsBehind(_)
RoundsBehind(es) ==
    IF es = <<>> THEN <<>>
    ELSE RoundBehind(Head(es)) \o RoundsBehind(Tail(es))

\* the round of the update_history call of the second run, in the step
\* that ends it
OtherRound ==
    IF otherpc = "translate" /\ otherpc' = "ended"
    THEN Round(OtherCommand, OtherSummary)
    ELSE <<>>

\* C38: when two runs on one document overlap, each step of either run
\* leaves as the stored history of the document the most recent messages
\* of the history stored before the step followed by the rounds of the
\* update_history calls of the step, in call order: no call writes back a
\* history read before a call of the other run, so no round is lost but to
\* the truncation that drops the oldest messages.
C38_NoLostRound ==
    [][get_history_result(cache', FileId) =
           MostRecent(StoredHistory
                          \o RoundsBehind(SubSeq(events', Len(events) + 1,
                                                 Len(events')))
                          \o OtherRound,
                      2 * MAX_HISTORY_ROUNDS)]_vars

\* both runs have written while the other was running: the stored history
\* ends with a round of a subtask of the first run and the round of the
\* second, in either order, and older messages were dropped
C38_Witness ==
    /\ otherpc = "ended"
    /\ pc \notin {"idle", "ended"}
    /\ task_list > 0
    /\ Len(StoredHistory) = 2 * MAX_HISTORY_ROUNDS
    /\ \E p \in 1..Len(StoredHistory) :
           StoredHistory[p] = Msg("user", OtherCommand)
    /\ StoredHistory[Len(StoredHistory) - 1] = Msg("user", Subtask(1))
    /\ StoredHistory[1] # Msg("user", Text("prior", 1, 0))

====
